---- MODULE Spec2Model ----
(***************************************************************************)
(* Parallel AI backend: the HTTP passes of backend/main.py (POST /chat,    *)
(* /sms/incoming, /voice/transcription) over the message store, and the    *)
(* draft generator / synthesizer of backend/spoon_os.py and                *)
(* backend/spoon_official.py.                                              *)
(*                                                                         *)
(* Text is a sequence of tokens.  A literal of the program is one token;   *)
(* text that comes from outside (user content, model output, exception     *)
(* payloads) is a sequence of one-character tokens or one opaque token.    *)
(***************************************************************************)
EXTENDS Integers, Sequences, FiniteSets, TLC

\* ------------------------------------------------------------------ bounds
MaxReqs == 2

MaxPasses == 2

\* rows the store holds when the context is built
MaxMsgRows == 32

MaxActRows == 17

Reqs == 1..MaxReqs

Passes == 1..MaxPasses

\* the account whose browser (cookie) or phone a pass comes from: the two
\* seeded accounts alternate
UserOf(r) == IF r % 2 = 1 THEN "Sean" ELSE "Yug"

\* ------------------------------------------------------- program constants
\* seed.py creates exactly these two accounts
Users == {"Sean", "Yug"}

\* config.py: the keys of CLIENTS
CLIENTS == {"sean", "yug"}

ActivityCap == 70

SmsActivityCap == 60

\* _build_system_prompt, _get_team_context: .limit(30), .limit(15), [:300]
MessageLimit == 30

ActivityLimit == 15

ContentCap == 300

\* _fetch_and_transcribe_recording: transcript_text[:100] in the activity
TranscriptPreviewCap == 100

\* ------------------------------------------------------------------ inputs
None == [kind |-> "none"]

Contents == {<< >>, <<" ">>, <<"h", "i">>}

Modes == {"chat", "research", "action"}

\* what an external call can do: return text, or raise with a payload
\* (a timeout of the OpenAI or HTTP client is raised as an exception too)
ExcPayloads == {"Request timed out.", "Connection error."}

RespTexts == {<< >>, <<"o", "k">>}

\* a chat completion: text, or an exception
Outcomes ==
    [kind : {"ok"}, text : RespTexts]
        \cup {[kind |-> "raise", text |-> "Request timed out."]}

SmsTexts == {<< >>, <<"h", "i">>, <<"Sean", ":", "h", "i">>, <<"Yug">>}

VoiceTexts == {<< >>, <<"h", "i">>}

VARIABLES
    messages,     \* the committed rows of table messages, in commit order
    activities,   \* the committed rows of table activities, in commit order
    session,      \* per pass: rows added to the pass's db session, not committed
    pc,           \* per pass: where the handler is
    req,          \* per pass: the request it serves
    outcome,      \* per pass: what the external call did (None before it returns)
    status,       \* per pass: the HTTP status / result returned (None before)
    touched       \* users whose last_seen_at was set by touch()

httpVars == <<messages, activities, session, pc, req, outcome, status, touched>>

\* the draft generator, the synthesizer and the orchestration around them
VARIABLES
    tpc,          \* per orchestration pass: where it is
    tpass,        \* per pass: how it was started (None before)
    agents,       \* per pass: the agents the generator was asked for, in order
    drafts,       \* per pass: the draft mapping being built, in insertion order
    returned,     \* per pass: what the generator gave its caller (None before)
    synthesis,    \* per pass: what the synthesizer gave its caller (None before)
    calls,        \* per pass: the model calls issued, in order
    transcript,   \* the messages the orchestrator persisted, in order
    room,         \* the room's summary fields (models.Room)
    notes,        \* the audit notes appended to memory, in order
    notifications,\* the rows of table notifications (models.Notification)
    built         \* the prompts the context builder returned for the present store

\* GET /messages over two stores
VARIABLES
    messages2,    \* the rows of table messages of a second server, in commit order
    responses     \* what GET /messages returned from both for the present stores

\* one run of _do_agi_research, seen call by call
VARIABLES
    agi           \* where the run is, the status polls it issued, its AGI session, its result

\* one call over /voice/ws and the run of _fetch_and_transcribe_recording
\* it starts
VARIABLES
    ws,           \* where the connection is, its call id, the threads it started
    rec           \* where the run is, its lookups, and what it fetched and saved

\* per POST /chat pass: the handlers chat() has invoked, in order
VARIABLES handlers

\* one run of generate_summary, by step
VARIABLES summ

\* one TeamGraph object: its entry point, the set_entry_point calls made on
\* it, and what its last compile() returned
VARIABLES graph

\* one input handed to both orchestration implementations, and what each did
VARIABLES equiv

\* the users and user_credentials tables, and the register requests
VARIABLES accounts

\* one call of _client_for_user: its input and what it returned
VARIABLES lookup

auxVars == <<ws, rec, handlers, summ, graph, equiv, accounts, lookup>>

extVars == <<messages2, responses, agi, auxVars>>

\* state outside the generator, the synthesizer and the room
sideVars == <<notifications, built, extVars>>

teamVars ==
    <<tpc, tpass, agents, drafts, returned, synthesis, calls, transcript, room, notes,
      sideVars>>

vars == <<httpVars, teamVars>>

\* of the call, the recording run and the handler record, the parts other than `part` stay as they are
AuxOthers(part) ==
    /\ IF part = "ws" THEN TRUE ELSE UNCHANGED ws
    /\ IF part = "handlers" THEN TRUE ELSE UNCHANGED handlers
    /\ IF part = "rec" THEN TRUE ELSE UNCHANGED rec
    /\ IF part = "summ" THEN TRUE ELSE UNCHANGED summ
    /\ IF part = "graph" THEN TRUE ELSE UNCHANGED graph
    /\ IF part = "equiv" THEN TRUE ELSE UNCHANGED equiv
    /\ IF part = "accounts" THEN TRUE ELSE UNCHANGED accounts
    /\ IF part = "lookup" THEN TRUE ELSE UNCHANGED lookup

\* ------------------------------------------------------------ text helpers
Min(a, b) == IF a < b THEN a ELSE b

IsSpace(t) == t = " "

RECURSIVE LStrip(_)
LStrip(s) == IF s # << >> /\ IsSpace(Head(s)) THEN LStrip(Tail(s)) ELSE s

RECURSIVE RStrip(_)
RStrip(s) ==
    IF s # << >> /\ IsSpace(s[Len(s)]) THEN RStrip(SubSeq(s, 1, Len(s) - 1)) ELSE s

\* a text of nothing but whitespace, the empty text included
IsBlank(s) == \A i \in 1..Len(s) : IsSpace(s[i])

\* the text left as it came
StripNothing(s) == s

\* str.strip()
Strip(s) == RStrip(LStrip(s))

\* s[:n]
Take(s, n) == SubSeq(s, 1, Min(n, Len(s)))

Contains(s, t) == \E i \in 1..Len(s) : s[i] = t

\* ------------------------------------------------------------- the session
\* _save_msg: db.add of a Message row (no commit)
_save_msg(pend, r, user_id, sender_id, sender_name, role, content) ==
    Append(pend, [table |-> "messages", pass |-> r, user_id |-> user_id,
                  sender_id |-> sender_id, sender_name |-> sender_name,
                  role |-> role, content |-> content])

\* _save_activity: db.add of an Activity row (no commit)
_save_activity(pend, r, user_id, user_name, summary) ==
    Append(pend, [table |-> "activities", pass |-> r, user_id |-> user_id,
                  user_name |-> user_name, summary |-> summary])

\* a commit that writes the session's rows in place of the table
db_commit_replace(store, pend, table) ==
    IF SelectSeq(pend, LAMBDA row : row.table = table) = << >> THEN store
    ELSE SelectSeq(pend, LAMBDA row : row.table = table)

\* db.commit(): the rows the session holds for `table` reach the store
db_commit(store, pend, table) ==
    store \o SelectSeq(pend, LAMBDA row : row.table = table)

\* ------------------------------------------------------------ the handlers
Lower(name) ==
    CASE name = "Sean" -> "sean"
      [] name = "Yug" -> "yug"
      [] OTHER -> "unknown"

\* _client_for_user: the key of CLIENTS whose client is used, "none" if no client
_client_for_user(name) ==
    IF Lower(name) \in CLIENTS THEN Lower(name)
    ELSE IF "sean" \in CLIENTS THEN "sean"
    ELSE IF CLIENTS # {} THEN CHOOSE k \in CLIENTS : TRUE
    ELSE "none"

\* _do_chat: the text it returns for what the completion call did
_do_chat(name, o) ==
    IF _client_for_user(name) = "none" THEN <<"No AI client configured.">>
    ELSE IF o.kind = "ok"
         THEN (IF Strip(o.text) = << >> THEN <<"No response.">> ELSE Strip(o.text))
         ELSE <<"OpenAI error: ", o.text>>

\* _do_agi_research, seen from chat(): the text it returns for what the AGI
\* REST calls did ("exhausted": 45 status polls without a terminal status)
_do_agi_research(o) ==
    CASE o.kind = "ok" -> (IF o.text = << >>
                           THEN <<"Research complete but no result text found.">>
                           ELSE o.text)
      [] o.kind = "exhausted" ->
            <<"AGI research timed out after 90s. The query may have been too complex.">>
      [] OTHER -> <<"AGI research error: ", o.text>>

\* "connected account" in err.lower() or "connection" in err.lower()
MentionsConnection(e) == e \in {"Connection error."}

\* _do_composio_action, seen from chat(): the text it returns
_do_composio_action(o) ==
    CASE o.kind = "notools" -> <<"No Composio tools available.">>
      [] o.kind = "ok" -> (IF o.text = << >>
                           THEN <<"Action processed (no tool call was needed).">>
                           ELSE o.text)
      [] OTHER -> (IF MentionsConnection(o.text)
                   THEN <<"Composio error: No connected account found.">>
                   ELSE <<"Composio action error: ", o.text>>)

\* what the external calls of a handler can do
OutcomesOf(mode) ==
    CASE mode = "research" -> Outcomes \cup {[kind |-> "exhausted", text |-> << >>]}
      [] mode = "action" ->
            Outcomes \cup [kind : {"raise"}, text : ExcPayloads]
                     \cup {[kind |-> "notools", text |-> << >>]}
      [] OTHER -> Outcomes

\* payload.mode or "chat"
ModeOf(m) == IF m = "" THEN "chat" ELSE m

\* a dispatch that sends every mode but "chat" and "research" to the action
\* handler
HandlerElseAction(mode) ==
    CASE mode = "research" -> "_do_agi_research"
      [] mode = "chat" -> "_do_chat"
      [] OTHER -> "_do_composio_action"

\* chat(): if mode == "research" ... elif mode == "action" ... else
Handler(mode) ==
    CASE mode = "research" -> "_do_agi_research"
      [] mode = "action" -> "_do_composio_action"
      [] OTHER -> "_do_chat"

\* chat(): the handler's answer and the tag put before it
ChatAnswer(q, o) ==
    CASE Handler(q.mode) = "_do_agi_research" -> _do_agi_research(o)
      [] Handler(q.mode) = "_do_composio_action" -> _do_composio_action(o)
      [] OTHER -> _do_chat(q.user, o)

ChatTag(mode) ==
    CASE mode = "research" -> <<"[AGI Research] ">>
      [] mode = "action" -> <<"[Composio Action] ">>
      [] OTHER -> << >>

\* the activity summary chat() logs
ChatActivity(mode, content) ==
    (IF mode # "chat" THEN <<"[", mode, "] ">> ELSE << >>)
        \o Take(content, ActivityCap)
        \o (IF Len(content) > ActivityCap THEN <<"...">> ELSE << >>)

\* chat() without its first commit: the user message never reaches the store
chat_save_user_uncommitted(store, pend, r, u, content) == store

\* chat(), first commit: the user message is added to the session and committed
chat_save_user(store, pend, r, u, content) ==
    db_commit(store, _save_msg(pend, r, u, <<"user:", u>>, <<u>>, "user", content),
              "messages")

\* chat() returning the reply with the rows added to the session but not
\* committed
chat_finish_unflushed(r, answer) ==
    LET q == req[r]
        p1 == _save_msg(session[r], r, q.user, <<"agent:", q.user>>,
                        <<q.user, "'s Agent">>, "assistant",
                        ChatTag(q.mode) \o answer)
        p2 == _save_activity(p1, r, q.user, q.user, ChatActivity(q.mode, q.content))
    IN  /\ session' = [session EXCEPT ![r] = p2]
        /\ pc' = [pc EXCEPT ![r] = "done"]
        /\ status' = [status EXCEPT ![r] = "200"]
        /\ UNCHANGED <<messages, activities>>

\* chat() persisting one reply per configured client (a roster fan-out)
chat_finish_fanout(r, answer) ==
    LET q == req[r]
        p0 == _save_msg(session[r], r, q.user, <<"agent:", "sean">>,
                        <<"Sean", "'s Agent">>, "assistant", answer)
        p1 == _save_msg(p0, r, q.user, <<"agent:", "yug">>,
                        <<"Yug", "'s Agent">>, "assistant", answer)
        p2 == _save_activity(p1, r, q.user, q.user, ChatActivity(q.mode, q.content))
    IN  /\ messages' = db_commit(messages, p2, "messages")
        /\ activities' = db_commit(activities, p2, "activities")
        /\ session' = [session EXCEPT ![r] = << >>]
        /\ pc' = [pc EXCEPT ![r] = "done"]
        /\ status' = [status EXCEPT ![r] = "200"]

\* chat() writing the reply over the pass's user message row (an UPDATE
\* where the handler INSERTs)
chat_finish_overwrite(r, answer) ==
    LET q == req[r]
        reply == _save_msg(<< >>, r, q.user, <<"agent:", q.user>>,
                           <<q.user, "'s Agent">>, "assistant",
                           ChatTag(q.mode) \o answer)[1]
        p2 == _save_activity(session[r], r, q.user, q.user,
                             ChatActivity(q.mode, q.content))
    IN  /\ messages' = [i \in 1..Len(messages) |->
                            IF messages[i].pass = r THEN reply ELSE messages[i]]
        /\ activities' = db_commit(activities, p2, "activities")
        /\ session' = [session EXCEPT ![r] = << >>]
        /\ pc' = [pc EXCEPT ![r] = "done"]
        /\ status' = [status EXCEPT ![r] = "200"]

\* chat(), tail: the reply and the activity are added and committed, and the
\* reply is returned
chat_finish(r, answer) ==
    LET q == req[r]
        p1 == _save_msg(session[r], r, q.user, <<"agent:", q.user>>,
                        <<q.user, "'s Agent">>, "assistant",
                        ChatTag(q.mode) \o answer)
        p2 == _save_activity(p1, r, q.user, q.user, ChatActivity(q.mode, q.content))
    IN  /\ messages' = db_commit(messages, p2, "messages")
        /\ activities' = db_commit(activities, p2, "activities")
        /\ session' = [session EXCEPT ![r] = << >>]
        /\ pc' = [pc EXCEPT ![r] = "done"]
        /\ status' = [status EXCEPT ![r] = "200"]

\* what the access_token cookie of a request can be: the token of the
\* account, no cookie, a string that does not decode, a token whose subject
\* is no user
Tokens == {"valid", "missing", "undecodable", "nouser"}

\* get_current_user: the user the cookie names, or none
get_current_user(token, u) == IF token = "valid" THEN u ELSE "none"

\* chat() marking the account as seen before it looks at the token
chat_recv_touch_first(r, tok, u, c, m) ==
    /\ pc[r] = "idle"
    /\ touched' = touched \cup {u}
    /\ IF ~tok
       THEN /\ pc' = [pc EXCEPT ![r] = "done"]
            /\ status' = [status EXCEPT ![r] = "401"]
            /\ req' = [req EXCEPT ![r] = [path |-> "chat", user |-> "none",
                                          content |-> << >>, mode |-> "chat",
                                          blank |-> TRUE]]
            /\ UNCHANGED messages
       ELSE /\ req' = [req EXCEPT ![r] = [path |-> "chat", user |-> u,
                                          content |-> Strip(c), mode |-> ModeOf(m),
                                          blank |-> IsBlank(c)]]
            /\ IF Strip(c) = << >>
               THEN /\ pc' = [pc EXCEPT ![r] = "done"]
                    /\ status' = [status EXCEPT ![r] = "400"]
                    /\ UNCHANGED messages
               ELSE /\ messages' = chat_save_user(messages, session[r], r, u, Strip(c))
                    /\ pc' = [pc EXCEPT ![r] = "saved"]
                    /\ UNCHANGED status
    /\ UNCHANGED <<activities, session, outcome, teamVars>>

\* POST /chat up to the first commit: authentication, touch, the empty check,
\* and the user message
chat_recv(r, tok, u, c, m) ==
    /\ pc[r] = "idle"
    /\ IF ~tok
       THEN /\ pc' = [pc EXCEPT ![r] = "done"]
            /\ status' = [status EXCEPT ![r] = "401"]
            /\ req' = [req EXCEPT ![r] = [path |-> "chat", user |-> "none",
                                          content |-> << >>, mode |-> "chat",
                                          blank |-> TRUE]]
            /\ UNCHANGED <<messages, touched>>
       ELSE /\ touched' = touched \cup {u}
            /\ req' = [req EXCEPT ![r] = [path |-> "chat", user |-> u,
                                          content |-> Strip(c), mode |-> ModeOf(m),
                                          blank |-> IsBlank(c)]]
            /\ IF Strip(c) = << >>
               THEN /\ pc' = [pc EXCEPT ![r] = "done"]
                    /\ status' = [status EXCEPT ![r] = "400"]
                    /\ UNCHANGED messages
               ELSE /\ messages' = chat_save_user(messages, session[r], r, u, Strip(c))
                    /\ pc' = [pc EXCEPT ![r] = "saved"]
                    /\ UNCHANGED status
    /\ UNCHANGED <<activities, session, outcome, teamVars>>

\* POST /chat, mode dispatch: the handler starts; without its configuration it
\* returns a fixed text at once, otherwise its external call is issued.
\* `configured`: whether the environment holds the key the mode's service
\* needs (AGI_API_KEY, COMPOSIO_API_KEY), read when the handler starts.
chat_call(r, configured) ==
    /\ pc[r] = "saved"
    /\ handlers' = [handlers EXCEPT ![r] = Append(@, Handler(req[r].mode))]
    /\ IF Handler(req[r].mode) = "_do_agi_research" /\ ~configured
       THEN chat_finish(r, <<"AGI API key not configured. Add AGI_API_KEY to your .env">>)
       ELSE IF Handler(req[r].mode) = "_do_composio_action" /\ ~configured
       THEN chat_finish(r, <<"Composio not configured. Add COMPOSIO_API_KEY to .env">>)
       ELSE /\ pc' = [pc EXCEPT ![r] = "calling"]
            /\ UNCHANGED <<messages, activities, session, status>>
    /\ UNCHANGED <<req, outcome, touched>>
    /\ UNCHANGED <<tpc, tpass, agents, drafts, returned, synthesis, calls, transcript,
                   room, notes, notifications, built, messages2, responses, agi>>
    /\ AuxOthers("handlers")

\* chat() with no handler around the external call: an exception leaves the
\* pass without a reply
chat_reply_unhandled(r, o) ==
    /\ pc[r] = "calling"
    /\ req[r].path = "chat"
    /\ o \in OutcomesOf(req[r].mode)
    /\ outcome' = [outcome EXCEPT ![r] = o]
    /\ IF o.kind = "raise"
       THEN /\ pc' = [pc EXCEPT ![r] = "crashed"]
            /\ status' = [status EXCEPT ![r] = "500"]
            /\ UNCHANGED <<messages, activities, session>>
       ELSE chat_finish(r, ChatAnswer(req[r], o))
    /\ UNCHANGED <<req, touched, teamVars>>

\* POST /chat: the external call returns or raises, the reply is persisted
chat_reply(r, o) ==
    /\ pc[r] = "calling"
    /\ req[r].path = "chat"
    /\ o \in OutcomesOf(req[r].mode)
    /\ outcome' = [outcome EXCEPT ![r] = o]
    /\ chat_finish(r, ChatAnswer(req[r], o))
    /\ UNCHANGED <<req, touched, teamVars>>

\* ".lstrip(':')": every leading colon goes
RECURSIVE LStripColon(_)
LStripColon(s) == IF s # << >> /\ Head(s) = ":" THEN LStripColon(Tail(s)) ELSE s

\* sms_incoming: the name prefix the text starts with ("Sean" is tried first);
\* the name's characters are one token
SmsPrefix(text) ==
    IF text # << >> /\ Head(text) \in {"Sean", "Yug"} THEN Head(text) ELSE "none"

\* sms_incoming: text[len(name):].strip().lstrip(":").strip()
SmsBody(text) ==
    IF SmsPrefix(text) = "none" THEN text
    ELSE Strip(LStripColon(Strip(Tail(text))))

\* /sms/incoming up to the completion call: the user is resolved, the user
\* message and the activity are added to the session, _do_chat is entered.
\* `sender` is the form's From field ("" when the form has none), `first`
\* the row db.query(User).first() returns.
sms_incoming(r, sender, raw, first) ==
    /\ pc[r] = "idle"
    /\ LET text == Strip(raw)
           u == IF SmsPrefix(text) # "none" THEN SmsPrefix(text) ELSE first
           body == SmsBody(text)
       IN  /\ req' = [req EXCEPT ![r] = [path |-> "sms", user |-> u,
                                         content |-> body, mode |-> "chat"]]
           /\ IF text = << >> \/ body = << >>
              THEN /\ pc' = [pc EXCEPT ![r] = "done"]
                   /\ status' = [status EXCEPT ![r] =
                                     IF text = << >> THEN "ok:false" ELSE "ok:true"]
                   /\ UNCHANGED session
              ELSE /\ session' = [session EXCEPT ![r] =
                        _save_activity(
                            _save_msg(session[r], r, u, <<"sms:", sender>>,
                                      <<u, " (SMS)">>, "user", body),
                            r, u, u, <<"[SMS] ">> \o Take(body, SmsActivityCap))]
                   /\ pc' = [pc EXCEPT ![r] = "calling"]
                   /\ UNCHANGED status
    /\ UNCHANGED <<messages, activities, outcome, touched, teamVars>>

\* /voice/transcription up to the completion call
voice_transcription(r, caller, transcription) ==
    /\ pc[r] = "idle"
    /\ req' = [req EXCEPT ![r] = [path |-> "voice", user |-> caller,
                                  content |-> transcription, mode |-> "chat"]]
    /\ IF transcription = << >> \/ caller \notin Users
       THEN /\ pc' = [pc EXCEPT ![r] = "done"]
            /\ status' = [status EXCEPT ![r] = "ok:false"]
            /\ UNCHANGED session
       ELSE /\ session' = [session EXCEPT ![r] =
                 _save_activity(
                     _save_msg(session[r], r, caller, <<"voice:", caller>>,
                               <<caller, " (voice)">>, "user", transcription),
                     r, caller, caller,
                     <<"[Voice] ">> \o Take(transcription, SmsActivityCap))]
            /\ pc' = [pc EXCEPT ![r] = "calling"]
            /\ UNCHANGED status
    /\ UNCHANGED <<messages, activities, outcome, touched, teamVars>>

ReplyTag(path) == IF path = "sms" THEN <<"[SMS reply] ">> ELSE <<"[Voice reply] ">>

\* /sms/incoming and /voice/transcription after _do_chat: the reply is added
\* and the session is committed
webhook_reply(r, o) ==
    /\ pc[r] = "calling"
    /\ req[r].path \in {"sms", "voice"}
    /\ o \in Outcomes
    /\ outcome' = [outcome EXCEPT ![r] = o]
    /\ LET q == req[r]
           p == _save_msg(session[r], r, q.user, <<"agent:", q.user>>,
                          <<q.user, "'s Agent">>, "assistant",
                          ReplyTag(q.path) \o _do_chat(q.user, o))
       IN  /\ messages' = db_commit(messages, p, "messages")
           /\ activities' = db_commit(activities, p, "activities")
    /\ session' = [session EXCEPT ![r] = << >>]
    /\ pc' = [pc EXCEPT ![r] = "done"]
    /\ status' = [status EXCEPT ![r] = "ok:true"]
    /\ UNCHANGED <<req, touched, teamVars>>

\* ------------------------------------- the other writers of the message log
\* Each runs in a session of its own; a slot r of Reqs stands for one run.
EndRun(r, path, u, st) ==
    /\ req' = [req EXCEPT ![r] = [path |-> path, user |-> u, content |-> << >>,
                                  mode |-> "chat"]]
    /\ pc' = [pc EXCEPT ![r] = "done"]
    /\ status' = [status EXCEPT ![r] = st]

\* a helper that stores the caller's name as the sender identifier
_save_msg_sync_untagged(store, r, caller_name, content, role) ==
    IF caller_name \notin Users THEN store
    ELSE db_commit(store,
             _save_msg(<< >>, r, caller_name, <<caller_name>>,
                       <<caller_name, " (voice call)">>, role, content),
             "messages")

\* _save_msg_sync: nothing is saved for a caller that is no user
_save_msg_sync(store, r, caller_name, content, role) ==
    IF caller_name \notin Users THEN store
    ELSE db_commit(store,
             _save_msg(<< >>, r, caller_name, <<"voice:", caller_name>>,
                       <<caller_name, " (voice call)">>, role, content),
             "messages")

\* _save_activity_sync
_save_activity_sync(store, r, caller_name, summary) ==
    IF caller_name \notin Users THEN store
    ELSE db_commit(store, _save_activity(<< >>, r, caller_name, caller_name, summary),
                   "activities")

\* what a run can meet: a return without a message (no Plivo client, no
\* download, no client, an empty transcript), no recording after the polls,
\* a transcript, an exception before the transcript is saved, an exception
\* of _save_activity_sync after the transcript is saved
RecordingResults == {"skipped", "norecording", "transcript", "failed", "activityfailed"}

\* _fetch_and_transcribe_recording, after the hangup: what it leaves in the
\* log for what the recording fetch and the transcription did
fetch_and_transcribe_recording(r, caller_name, result) ==
    /\ pc[r] = "idle"
    /\ EndRun(r, "recording", caller_name, result)
    /\ CASE result = "skipped" -> UNCHANGED <<messages, activities>>
         [] result = "norecording" ->
              /\ messages' = _save_msg_sync(messages, r, caller_name,
                     <<"[Voice Call] Call completed but recording was not available for transcription.">>,
                     "assistant")
              /\ UNCHANGED activities
         [] result = "transcript" ->
              /\ messages' = _save_msg_sync(messages, r, caller_name,
                     <<"[Voice Call Transcript]\n\n", "h", "i">>, "assistant")
              /\ activities' = _save_activity_sync(activities, r, caller_name,
                     <<"[Voice Call] ">> \o Take(<<"h", "i">>, TranscriptPreviewCap))
         [] result = "failed" ->
              /\ messages' = _save_msg_sync(messages, r, caller_name,
                     <<"[Voice Call] Call completed. Transcription failed: ",
                       "Connection error.">>, "assistant")
              /\ UNCHANGED activities
         [] result = "activityfailed" ->
              /\ messages' = _save_msg_sync(
                     _save_msg_sync(messages, r, caller_name,
                         <<"[Voice Call Transcript]\n\n", "h", "i">>, "assistant"),
                     r, caller_name,
                     <<"[Voice Call] Call completed. Transcription failed: ",
                       "database is locked">>, "assistant")
              /\ UNCHANGED activities
    /\ UNCHANGED <<session, outcome, touched, teamVars>>

\* voice_agent.handle_save_to_workspace: _save_db_message and _save_db_activity
handle_save_to_workspace(r, caller_name, message) ==
    /\ pc[r] = "idle"
    /\ EndRun(r, "voicenote", caller_name,
              IF message = << >> THEN "error" ELSE "success")
    /\ IF message = << >> \/ caller_name \notin Users
       THEN UNCHANGED <<messages, activities>>
       ELSE /\ messages' = db_commit(messages,
                   _save_msg(<< >>, r, caller_name, <<"voice:", caller_name>>,
                             <<caller_name, " (voice)">>, "user", message),
                   "messages")
            /\ activities' = db_commit(activities,
                   _save_activity(<< >>, r, caller_name, caller_name,
                                  <<"[Voice Note] ">> \o Take(message, SmsActivityCap)),
                   "activities")
    /\ UNCHANGED <<session, outcome, touched, teamVars>>

\* POST /summary/generate up to the summary completion: authentication, touch,
\* the configuration checks, and the read of all messages
summary_recv(r, tok, u, composio) ==
    /\ pc[r] = "idle"
    /\ IF ~tok
       THEN /\ EndRun(r, "summary", "none", "401")
            /\ UNCHANGED touched
       ELSE /\ touched' = touched \cup {u}
            /\ IF ~composio \/ _client_for_user(u) = "none"
               THEN EndRun(r, "summary", u, "500")
               ELSE IF messages = << >>
               THEN EndRun(r, "summary", u, "400")
               ELSE /\ req' = [req EXCEPT ![r] =
                           [path |-> "summary", user |-> u, content |-> << >>,
                            mode |-> "chat", n |-> Len(messages)]]
                    /\ pc' = [pc EXCEPT ![r] = "calling"]
                    /\ UNCHANGED status
    /\ UNCHANGED <<messages, activities, session, outcome, teamVars>>

\* POST /summary/generate from the summary completion on: a failed completion
\* is a 502; otherwise the document and e-mail steps run (their failures are
\* caught) and the activity and the report message are committed
summary_reply(r, o, doc) ==
    /\ pc[r] = "calling"
    /\ req[r].path = "summary"
    /\ outcome' = [outcome EXCEPT ![r] = o]
    /\ pc' = [pc EXCEPT ![r] = "done"]
    /\ IF o.kind = "raise"
       THEN /\ status' = [status EXCEPT ![r] = "502"]
            /\ UNCHANGED <<messages, activities>>
       ELSE LET q == req[r]
                p1 == _save_activity(session[r], r, q.user, q.user,
                          <<"[Summary] Generated & emailed to ", "a@b.c">>)
                p2 == _save_msg(p1, r, q.user, <<"agent:", q.user>>,
                          <<q.user, "'s Agent">>, "assistant",
                          <<"[Summary Report] Created summary with ", ToString(q.n),
                            " messages. ">>
                              \o (IF doc THEN <<"Google Doc created. ">> ELSE << >>)
                              \o <<"Emailed to ", "a@b.c", ".">>)
            IN  /\ messages' = db_commit(messages, p2, "messages")
                /\ activities' = db_commit(activities, p2, "activities")
                /\ status' = [status EXCEPT ![r] = "200"]
    /\ UNCHANGED <<req, session, touched, teamVars>>

\* user.name of a user without a name, beside the names [text |-> words]
NoName == [kind |-> "none"]

\* ------------------------------------------------------------ the accounts
\* how many register requests are followed
MaxRegs == 3

Regs == 1..MaxRegs

\* seed.py: the two demo accounts and their credentials
SeedUsers ==
    <<[id |-> "sean_id", email |-> "sean@parallel.dev", name |-> "Sean"],
      [id |-> "yug_id", email |-> "yug@parallel.dev", name |-> "Yug"]>>

SeedCredentials == <<[user_id |-> "sean_id"], [user_id |-> "yug_id"]>>

NoReg == [pc |-> "idle", email |-> "", status |-> "", found |-> FALSE, added |-> <<0, 0>>]

\* ------------------------------------------------------- the specification
\* models.Room: project_summary and memory_summary default to ""
NewRoom == [project_summary |-> << >>, memory_summary |-> << >>]

TeamIdle ==
    /\ tpc = [p \in Passes |-> "idle"]
    /\ tpass = [p \in Passes |-> None]
    /\ agents = [p \in Passes |-> << >>]
    /\ drafts = [p \in Passes |-> << >>]
    /\ returned = [p \in Passes |-> None]
    /\ synthesis = [p \in Passes |-> None]
    /\ calls = [p \in Passes |-> << >>]
    /\ transcript = << >>
    /\ notes = << >>
    /\ notifications = << >>
    /\ built = << >>
    /\ messages2 = << >>
    /\ responses = << >>
    /\ agi = [pc |-> "idle", polls |-> 0, session |-> FALSE, deleted |-> FALSE,
              result |-> None]
    /\ ws = [pc |-> "idle", caller |-> "Unknown", url |-> "", meta |-> "", call_id |-> "",
             recording |-> 0, threads |-> << >>, error |-> FALSE]
    /\ handlers = [r \in Reqs |-> << >>]
    /\ graph = [entry |-> "ask_team", history |-> << >>, compiled |-> None]
    /\ equiv = [pc |-> "idle", input |-> None, os |-> None, official |-> None]
    /\ lookup = [pc |-> "idle", clients |-> << >>, name |-> NoName, key |-> << >>,
                 result |-> None]
    /\ accounts = [users |-> SeedUsers, credentials |-> SeedCredentials,
                   reg |-> [g \in Regs |-> NoReg]]
    /\ summ = [pc |-> "idle", user |-> "none", n |-> 0, status |-> "", attempted |-> << >>,
               steps |-> << >>, doc_url |-> FALSE]
    /\ rec = [pc |-> "idle", lookups |-> 0, found |-> 0, downloads |-> 0,
              transcriptions |-> 0, notices |-> << >>]

Init ==
    /\ messages = << >>
    /\ activities = << >>
    /\ session = [r \in Reqs |-> << >>]
    /\ pc = [r \in Reqs |-> "idle"]
    /\ req = [r \in Reqs |-> None]
    /\ outcome = [r \in Reqs |-> None]
    /\ status = [r \in Reqs |-> "none"]
    /\ touched = {}
    /\ TeamIdle
    /\ room = NewRoom

Next ==
    \/ \E r \in Reqs, tok \in BOOLEAN, c \in Contents, m \in Modes :
          chat_recv(r, tok, UserOf(r), c, m)
    \/ \E r \in Reqs, configured \in BOOLEAN : chat_call(r, configured)
    \/ \E r \in Reqs, o \in Outcomes \cup UNION {OutcomesOf(m) : m \in Modes} :
          chat_reply(r, o)
    \/ \E r \in Reqs, raw \in SmsTexts, first \in Users : sms_incoming(r, "+15550100", raw, first)
    \/ \E r \in Reqs : \E caller \in {UserOf(r), "Unknown"}, t \in VoiceTexts :
          voice_transcription(r, caller, t)
    \/ \E r \in Reqs, o \in Outcomes : webhook_reply(r, o)

Spec == Init /\ [][Next]_vars

\* The server under POST /chat requests alone, of every kind: with and
\* without a valid token, blank and non-blank content, every mode and every
\* outcome of the mode's external call
PostChatNext ==
    \/ \E r \in Reqs, token \in Tokens, c \in Contents, m \in Modes :
          chat_recv(r, get_current_user(token, UserOf(r)) # "none", UserOf(r), c, m)
    \/ \E r \in Reqs, configured \in BOOLEAN : chat_call(r, configured)
    \/ \E r \in Reqs, o \in Outcomes \cup UNION {OutcomesOf(m) : m \in Modes} :
          chat_reply(r, o)

SpecPostChat == Init /\ [][PostChatNext]_vars

\* the values the mode field of a ChatRequest can carry: mode is any string
AnyModes == Modes \cup {"", "team"}

\* The server under authenticated POST /chat requests alone, with the mode
\* field any string
DispatchNext ==
    \/ \E r \in Reqs, c \in Contents, m \in AnyModes : chat_recv(r, TRUE, UserOf(r), c, m)
    \/ \E r \in Reqs, configured \in BOOLEAN : chat_call(r, configured)
    \/ \E r \in Reqs, o \in Outcomes \cup UNION {OutcomesOf(m) : m \in Modes} :
          chat_reply(r, o)

SpecDispatch == Init /\ [][DispatchNext]_vars

\* The server under authenticated, non-empty POST /chat requests alone, with
\* the handlers running to completion: the server gives every started handler
\* its next step, and every external call returns, raises or times out within
\* its timeout (requests timeout=..., the OpenAI client's request timeout, at
\* most 45 polls).
LiveOutcomes ==
    {[kind |-> "ok", text |-> <<"o", "k">>],
     [kind |-> "raise", text |-> "Request timed out."],
     [kind |-> "exhausted", text |-> << >>]}

ChatNext ==
    \/ \E r \in Reqs, m \in Modes : chat_recv(r, TRUE, UserOf(r), <<"h", "i">>, m)
    \/ \E r \in Reqs, configured \in BOOLEAN : chat_call(r, configured)
    \/ \E r \in Reqs, o \in LiveOutcomes : chat_reply(r, o)

ChatFairSpec ==
    /\ Init
    /\ [][ChatNext]_vars
    /\ \A r \in Reqs :
          /\ WF_vars(\E configured \in BOOLEAN : chat_call(r, configured))
          /\ WF_vars(\E o \in LiveOutcomes : chat_reply(r, o))

\* Every operation of the server that writes the message log: the chat, SMS
\* and voice passes, the transcription after a hangup, the voice agent's note
\* tool and the summary report
\* the From field of an SMS form: a phone number, or "" when it is missing
SmsSenders == {"+15550100", ""}

LogOutcomes ==
    {[kind |-> "ok", text |-> <<"o", "k">>],
     [kind |-> "raise", text |-> "Request timed out."]}

LogNext ==
    \/ \E r \in Reqs : chat_recv(r, TRUE, UserOf(r), <<"h", "i">>, "chat")
    \/ \E r \in Reqs : chat_call(r, TRUE)
    \/ \E r \in Reqs, o \in LogOutcomes : chat_reply(r, o)
    \/ \E r \in Reqs, sender \in SmsSenders :
          sms_incoming(r, sender, <<"h", "i">>, UserOf(r))
    \/ \E r \in Reqs : voice_transcription(r, UserOf(r), <<"h", "i">>)
    \/ \E r \in Reqs, o \in LogOutcomes : webhook_reply(r, o)
    \/ \E r \in Reqs, result \in RecordingResults :
          \E caller \in {UserOf(r), "Unknown"} :
             fetch_and_transcribe_recording(r, caller, result)
    \/ \E r \in Reqs, message \in VoiceTexts : handle_save_to_workspace(r, UserOf(r), message)
    \/ \E r \in Reqs, tok \in BOOLEAN, composio \in BOOLEAN :
          summary_recv(r, tok, UserOf(r), composio)
    \/ \E r \in Reqs, o \in LogOutcomes, doc \in BOOLEAN : summary_reply(r, o, doc)

SpecLog == Init /\ [][LogNext]_vars

\* ------------------------------------- draft generator and synthesizer
\* spoon_os.TEAM, spoon_official.TEAM
TEAM == <<"yug", "sean", "severin", "nayab">>

\* node_ask_one: state.get("target") or "yug"
DefaultTarget == "yug"

\* the target a caller names: none, a member with a client, or one without
Targets == {"none", "sean", "severin"}

EntryNames == {"ask_one", "ask_team", "synthesize"}

\* what a chat completion of the generator or the synthesizer can do
TeamOutcomes ==
    {[kind |-> "ok", text |-> <<"d">>], [kind |-> "raise", text |-> "Request timed out."]}

\* the drafts a caller can hand to the synthesize node
GivenDrafts == {<< >>, << <<"yug", <<"d">>>> >>}

\* the generator returning a partial mapping when a call fails
DraftFailurePartial(p, e) ==
    /\ returned' = [returned EXCEPT ![p] = [kind |-> "drafts", drafts |-> drafts[p]]]
    /\ tpc' = [tpc EXCEPT ![p] = "drafted"]
    /\ UNCHANGED drafts

\* ask_one / ask_team / node_ask_one / node_ask_team: an exception of _chat_as
\* (the CLIENTS lookup or the completion call) leaves the dict being built and
\* reaches the caller
DraftFailure(p, e) ==
    /\ returned' = [returned EXCEPT ![p] = [kind |-> "raise", text |-> e]]
    /\ tpc' = [tpc EXCEPT ![p] = "raised"]
    /\ UNCHANGED drafts

\* temperature of the draft calls: 0.35 for one agent, 0.4 for the team
DraftTemperature(t) == IF t.fn = "ask_team" THEN "0.4" ELSE "0.35"

\* a generator that asks the same agent again after a failed completion
chat_as_retry(p, o) ==
    /\ tpc[p] = "drafting"
    /\ LET a == agents[p][Len(drafts[p]) + 1]
       IN  IF a \notin CLIENTS
           THEN /\ DraftFailure(p, "KeyError")
                /\ UNCHANGED calls
           ELSE /\ calls' = [calls EXCEPT ![p] =
                        Append(@, [agent |-> a, temperature |-> DraftTemperature(tpass[p])])]
                /\ IF o.kind = "raise"
                   THEN IF Len(calls[p]) <= Len(drafts[p])
                        THEN UNCHANGED <<drafts, returned, tpc>>
                        ELSE DraftFailure(p, o.text)
                   ELSE LET d == Append(drafts[p], <<a, o.text>>)
                        IN  /\ drafts' = [drafts EXCEPT ![p] = d]
                            /\ IF Len(d) = Len(agents[p])
                               THEN /\ returned' = [returned EXCEPT ![p] =
                                            [kind |-> "drafts", drafts |-> d]]
                                    /\ tpc' = [tpc EXCEPT ![p] = "drafted"]
                               ELSE UNCHANGED <<returned, tpc>>
    /\ UNCHANGED <<tpass, agents, synthesis, transcript, room, notes, httpVars, sideVars>>

\* one turn of the generator's loop: _chat_as for the next requested agent
chat_as(p, o) ==
    /\ tpc[p] = "drafting"
    /\ LET a == agents[p][Len(drafts[p]) + 1]
       IN  IF a \notin CLIENTS
           THEN /\ DraftFailure(p, "KeyError")
                /\ UNCHANGED calls
           ELSE /\ calls' = [calls EXCEPT ![p] =
                        Append(@, [agent |-> a, temperature |-> DraftTemperature(tpass[p])])]
                /\ IF o.kind = "raise"
                   THEN DraftFailure(p, o.text)
                   ELSE LET d == Append(drafts[p], <<a, o.text>>)
                        IN  /\ drafts' = [drafts EXCEPT ![p] = d]
                            /\ IF Len(d) = Len(agents[p])
                               THEN /\ returned' = [returned EXCEPT ![p] =
                                            [kind |-> "drafts", drafts |-> d]]
                                    /\ tpc' = [tpc EXCEPT ![p] = "drafted"]
                               ELSE UNCHANGED <<returned, tpc>>
    /\ UNCHANGED <<tpass, agents, synthesis, transcript, room, notes, httpVars, sideVars>>

\* NAMES.get(who, who.title())
Label(who) ==
    CASE who = "yug" -> "Yug"
      [] who = "sean" -> "Sean"
      [] who = "severin" -> "Severin"
      [] who = "nayab" -> "Nayab"
      [] OTHER -> who

\* synthesize / node_synthesize: the messages of the coordinator's call: the
\* instruction, the context, the asker's prompt, then one assistant message
\* for each draft in the order of drafts.items()
SynthMsgs(ds) ==
    <<[role |-> "system", content |-> <<"You are the coordinator.">>],
      [role |-> "system", content |-> <<"sys_ctx">>],
      [role |-> "user", content |-> <<"Latest human message from ", "asker", ":\n", "prompt">>]>>
        \o [i \in 1..Len(ds) |->
               [role |-> "assistant",
                content |-> <<Label(ds[i][1]), " draft:\n">> \o ds[i][2]]]

\* synthesize / node_synthesize: the messages are built from the drafts, then
\* the coordinator client is looked up and called once
synthesize(p, o) ==
    /\ tpc[p] = "synthesizing"
    /\ IF "coordinator" \notin CLIENTS
       THEN /\ synthesis' = [synthesis EXCEPT ![p] = [kind |-> "raise", text |-> "KeyError"]]
            /\ tpc' = [tpc EXCEPT ![p] = "raised"]
            /\ UNCHANGED calls
       ELSE /\ calls' = [calls EXCEPT ![p] =
                    Append(@, [agent |-> "coordinator", temperature |-> "0.35",
                               msgs |-> SynthMsgs(drafts[p])])]
            /\ synthesis' = [synthesis EXCEPT ![p] = o]
            /\ tpc' = [tpc EXCEPT ![p] = IF o.kind = "raise" THEN "raised" ELSE "synthesized"]
    /\ UNCHANGED <<tpass, agents, drafts, returned, transcript, room, notes,
                   httpVars, sideVars>>

\* TeamGraph.compile: one node, the entry point, between START and END
Compile(entry) ==
    IF entry \in EntryNames
    THEN [nodes |-> {entry}, edges |-> {<<"START", entry>>, <<entry, "END">>}]
    ELSE [nodes |-> {}, edges |-> {}]

Successor(g, n) == CHOOSE m \in g.nodes \cup {"END"} : <<n, m>> \in g.edges

\* a graph whose drafting nodes all ask the whole team
EnterNodeTeam(p, n, target, given) ==
    IF n = "synthesize"
    THEN /\ tpc' = [tpc EXCEPT ![p] = "synthesizing"]
         /\ drafts' = [drafts EXCEPT ![p] = given]
         /\ UNCHANGED agents
    ELSE /\ tpc' = [tpc EXCEPT ![p] = "drafting"]
         /\ agents' = [agents EXCEPT ![p] = TEAM]
         /\ UNCHANGED drafts

\* the compiled graph entering a node
EnterNode(p, n, target, given) ==
    IF n = "synthesize"
    THEN /\ tpc' = [tpc EXCEPT ![p] = "synthesizing"]
         /\ drafts' = [drafts EXCEPT ![p] = given]
         /\ UNCHANGED agents
    ELSE /\ tpc' = [tpc EXCEPT ![p] = "drafting"]
         /\ agents' = [agents EXCEPT ![p] =
                IF n = "ask_team" THEN TEAM
                ELSE <<IF target = "none" THEN DefaultTarget ELSE target>>]
         /\ UNCHANGED drafts

\* build_team_graph(), set_entry_point(name), compile(), invoke(inputs) up to
\* the first node
graph_invoke(p, name, target, given) ==
    /\ tpc[p] = "idle"
    /\ IF name \notin EntryNames
       THEN /\ tpass' = [tpass EXCEPT ![p] = [via |-> "graph", fn |-> name,
                                            target |-> target]]
            /\ returned' = [returned EXCEPT ![p] = [kind |-> "raise", text |-> "ValueError"]]
            /\ tpc' = [tpc EXCEPT ![p] = "raised"]
            /\ UNCHANGED <<agents, drafts>>
       ELSE /\ tpass' = [tpass EXCEPT ![p] = [via |-> "graph", fn |-> name,
                                            target |-> target]]
            /\ EnterNode(p, Successor(Compile(name), "START"), target, given)
            /\ UNCHANGED returned
    /\ UNCHANGED <<synthesis, calls, transcript, room, notes, httpVars, sideVars>>

\* the compiled graph after a node returned: the edge out of the node is taken
graph_step(p) ==
    /\ tpass[p] # None
    /\ tpass[p].via = "graph"
    /\ tpc[p] \in {"drafted", "synthesized"}
    /\ LET next == Successor(Compile(tpass[p].fn), tpass[p].fn)
       IN  IF next = "END"
           THEN /\ tpc' = [tpc EXCEPT ![p] = "end"]
                /\ UNCHANGED <<agents, drafts>>
           ELSE EnterNode(p, next, tpass[p].target, drafts[p])
    /\ UNCHANGED <<tpass, returned, synthesis, calls, transcript, room, notes,
                   httpVars, sideVars>>

\* ------------------------------------------- the conversation orchestrator
\* (the orchestrator's own code is not among the sources: its steps follow
\* the specification's state machine, over the generator and synthesizer above)
SummaryMarker == "SUMMARY_UPDATE:"

AskModes == {"self", "team"}

\* the text of the assistant message that reports a failed pass
GenericFailureText == <<"Something went wrong. Try again.">>

\* the synthesis carries the marker
HasMarker(text) == Contains(text, SummaryMarker)

\* the text after the first marker
RECURSIVE AfterMarker(_)
AfterMarker(text) ==
    IF text = << >> THEN << >>
    ELSE IF Head(text) = SummaryMarker THEN Strip(Tail(text))
    ELSE AfterMarker(Tail(text))

\* SUMMARY_CHECK keeping the first summary a room got
SummaryCheckFirstWins(rm, text) ==
    IF HasMarker(text) /\ rm = NewRoom
    THEN [project_summary |-> AfterMarker(text), memory_summary |-> AfterMarker(text)]
    ELSE rm

\* SUMMARY_CHECK writing the summary for every synthesis, marker or not
SummaryCheckAlways(rm, text) ==
    [project_summary |-> text, memory_summary |-> text]

\* SUMMARY_CHECK: on the marker both summary fields are set to the update
SummaryCheck(rm, text) ==
    IF HasMarker(text)
    THEN [project_summary |-> AfterMarker(text), memory_summary |-> AfterMarker(text)]
    ELSE rm

\* SUMMARY_CHECK: the audit note appended on a match
AuditNotes(ns, p, text) ==
    IF HasMarker(text) THEN Append(ns, [pass |-> p, text |-> AfterMarker(text)]) ELSE ns

Msg(p, role, sender, content) ==
    [pass |-> p, role |-> role, sender_id |-> sender, content |-> content]

\* the messages of a draft mapping, in its insertion order
DraftMsgs(p, ds) ==
    [i \in 1..Len(ds) |-> Msg(p, "assistant", <<"agent:", ds[i][1]>>, ds[i][2])]

\* ---- the Outreach-Confirmation Handler (try_handle_confirmation)
OutreachLit == "message you could send to "

ColonQuote == ": \""

Quote == "\""

\* the enumerated confirmation phrases, normalized
ConfirmPhrases == {"yes", "yes please", "send it"}

\* lower case of a phrase token
PhraseLower(t) ==
    CASE t = "Yes" -> "yes"
      [] t = "YES PLEASE" -> "yes please"
      [] t = "Send it" -> "send it"
      [] OTHER -> t

\* lower case of a name token
NameLower(n) ==
    CASE n \in {"Sean", "SEAN"} -> "sean"
      [] n \in {"Yug", "YUG"} -> "yug"
      [] n = "Bob" -> "bob"
      [] OTHER -> n

\* step 1: the normalized text is one of the confirmation phrases
IsConfirmation(text) ==
    /\ Len(Strip(text)) = 1
    /\ PhraseLower(Strip(text)[1]) \in ConfirmPhrases

\* step 2: the most recent assistant message of the room
LastAssistant(log) ==
    LET rows == SelectSeq(log, LAMBDA m : m.role = "assistant")
    IN  IF rows = << >> THEN None ELSE rows[Len(rows)]

\* step 3: the pattern  message you could send to <Name>: "<text>"  with the
\* name token and the quoted text captured verbatim
ExtractSuggestion(text) ==
    LET starts == {i \in 1..Len(text) :
                      /\ text[i] = OutreachLit
                      /\ i + 2 <= Len(text)
                      /\ text[i + 2] = ColonQuote
                      /\ \E j \in (i + 3)..Len(text) : text[j] = Quote}
    IN  IF starts = {} THEN None
        ELSE LET i == CHOOSE x \in starts : \A y \in starts : x <= y
                 ends == {j \in (i + 3)..Len(text) : text[j] = Quote}
                 j == CHOOSE x \in ends : \A y \in ends : x <= y
             IN  [kind |-> "suggestion", name |-> text[i + 1],
                  draft |-> SubSeq(text, i + 3, j - 1)]

\* step 4: the user of the organization with that name, case-insensitive
ResolveUser(name) ==
    LET found == {u \in Users : NameLower(u) = NameLower(name)}
    IN  IF found = {} THEN "none" ELSE CHOOSE u \in found : TRUE

\* the notification carrying a tidied-up draft
OutreachNotificationTidied(u, sg) == [user |-> u, message |-> Strip(sg.draft)]

\* the notification for the recipient: the captured text verbatim
OutreachNotification(u, sg) == [user |-> u, message |-> sg.draft]

ConfirmationReply(sg) ==
    <<"Okay, I sent this message to ", sg.name, ColonQuote>> \o sg.draft \o <<Quote>>

\* the apology naming the recipient only
ApologyReplyBare(sg) == <<"I could not find ", sg.name, ".">>

\* the apology for an unresolved name, with the draft for manual copy
ApologyReply(sg) ==
    <<"I could not find ", sg.name, ". Here is the message to copy", ColonQuote>>
        \o sg.draft \o <<Quote>>

NoMatch == [kind |-> "nomatch"]

try_handle_confirmation(log, text) ==
    IF ~IsConfirmation(text) \/ LastAssistant(log) = None THEN NoMatch
    ELSE LET sg == ExtractSuggestion(LastAssistant(log).content)
         IN  IF sg = None THEN NoMatch
             ELSE IF ResolveUser(sg.name) = "none"
             THEN [kind |-> "handled", reply |-> ApologyReply(sg), notify |-> None]
             ELSE [kind |-> "handled", reply |-> ConfirmationReply(sg),
                   notify |-> OutreachNotification(ResolveUser(sg.name), sg)]

\* RECEIVED, OUTREACH_CHECK and ROUTE_SELECTED: the user message is persisted;
\* a confirmation the handler claims is answered at once (SHORTCUT_DONE);
\* otherwise the mode picks the agents and drafting starts
ask_recv(p, mode, target, text) ==
    /\ tpc[p] = "idle"
    /\ LET log == Append(transcript, Msg(p, "user", <<"user:", "asker">>, text))
           h == try_handle_confirmation(transcript, text)
       IN  IF h.kind = "handled"
           THEN /\ tpass' = [tpass EXCEPT ![p] =
                       [via |-> "ask", fn |-> "confirm", target |-> "none"]]
                /\ transcript' = Append(log,
                       Msg(p, "assistant", <<"agent:", "coordinator">>, h.reply))
                /\ notifications' =
                       IF h.notify = None THEN notifications
                       ELSE Append(notifications,
                                [pass |-> p, user |-> h.notify.user,
                                 message |-> h.notify.message, is_read |-> FALSE])
                /\ tpc' = [tpc EXCEPT ![p] = "end"]
                /\ UNCHANGED agents
           ELSE /\ tpass' = [tpass EXCEPT ![p] =
                       [via |-> "ask",
                        fn |-> IF mode = "team" THEN "ask_team" ELSE "ask_one",
                        target |-> target]]
                /\ transcript' = log
                /\ agents' = [agents EXCEPT ![p] =
                       IF mode = "team" THEN TEAM
                       ELSE <<IF target = "none" THEN DefaultTarget ELSE target>>]
                /\ tpc' = [tpc EXCEPT ![p] = "drafting"]
                /\ UNCHANGED notifications
    /\ UNCHANGED <<drafts, returned, synthesis, calls, room, notes, built, extVars,
                   httpVars>>

\* the orchestrator after the generator or the synthesizer came back:
\* a failure persists the generic assistant message; a single draft is
\* persisted as the reply; team drafts go to the synthesizer; a synthesis
\* passes SUMMARY_CHECK and is persisted after the drafts
ask_advance(p) ==
    /\ tpass[p] # None
    /\ tpass[p].via = "ask"
    /\ tpc[p] \in {"raised", "drafted", "synthesized"}
    /\ CASE tpc[p] = "raised" ->
              /\ transcript' = Append(transcript,
                     Msg(p, "assistant", <<"agent:", "coordinator">>,
                         GenericFailureText))
              /\ tpc' = [tpc EXCEPT ![p] = "end"]
              /\ UNCHANGED <<room, notes>>
         [] tpc[p] = "drafted" /\ tpass[p].fn = "ask_one" ->
              /\ transcript' = transcript \o DraftMsgs(p, returned[p].drafts)
              /\ tpc' = [tpc EXCEPT ![p] = "end"]
              /\ UNCHANGED <<room, notes>>
         [] tpc[p] = "drafted" /\ tpass[p].fn = "ask_team" ->
              /\ tpc' = [tpc EXCEPT ![p] = "synthesizing"]
              /\ UNCHANGED <<transcript, room, notes>>
         [] tpc[p] = "synthesized" ->
              /\ room' = SummaryCheck(room, synthesis[p].text)
              /\ notes' = AuditNotes(notes, p, synthesis[p].text)
              /\ transcript' = transcript \o DraftMsgs(p, drafts[p])
                     \o <<Msg(p, "assistant", <<"agent:", "coordinator">>,
                              synthesis[p].text)>>
              /\ tpc' = [tpc EXCEPT ![p] = "end"]
    /\ UNCHANGED <<tpass, agents, drafts, returned, synthesis, calls, httpVars, sideVars>>

\* the generator, the synthesizer, the compiled graph and the orchestrator
TeamNext ==
    \/ \E p \in Passes, mode \in AskModes :
          \E target \in (IF mode = "self" THEN Targets ELSE {"none"}) :
             ask_recv(p, mode, target, <<"h", "i">>)
    \/ \E p \in Passes : ask_advance(p)
    \/ \E p \in Passes, name \in EntryNames \cup {"summarize"} :
          \E target \in (IF name = "ask_one" THEN Targets ELSE {"none"}),
             given \in (IF name = "synthesize" THEN GivenDrafts ELSE {<< >>}) :
             graph_invoke(p, name, target, given)
    \/ \E p \in Passes : graph_step(p)
    \/ \E p \in Passes, o \in TeamOutcomes : chat_as(p, o)
    \/ \E p \in Passes, o \in TeamOutcomes : synthesize(p, o)

SpecTeam == Init /\ [][TeamNext]_vars

\* SUMMARY_CHECK on its own: passes of one room that have their team drafts
\* and a synthesis text, which the coordinator's completion returned
SynthTexts ==
    {<<"a">>, <<"summary_update:", "s", "3">>, <<"a", SummaryMarker>>,
     <<"a", SummaryMarker, "s", "1">>, <<SummaryMarker, " ", "s", "2">>}

TeamDrafts == [i \in 1..Len(TEAM) |-> <<TEAM[i], <<"d">>>>]

synthesis_returned(p, text) ==
    /\ tpc[p] = "idle"
    /\ tpass' = [tpass EXCEPT ![p] = [via |-> "ask", fn |-> "ask_team",
                                    target |-> "none"]]
    /\ agents' = [agents EXCEPT ![p] = TEAM]
    /\ drafts' = [drafts EXCEPT ![p] = TeamDrafts]
    /\ returned' = [returned EXCEPT ![p] = [kind |-> "drafts", drafts |-> TeamDrafts]]
    /\ synthesis' = [synthesis EXCEPT ![p] = [kind |-> "ok", text |-> text]]
    /\ tpc' = [tpc EXCEPT ![p] = "synthesized"]
    /\ UNCHANGED <<calls, transcript, room, notes, httpVars, sideVars>>

SummaryNext ==
    \/ \E p \in Passes, text \in SynthTexts : synthesis_returned(p, text)
    \/ \E p \in Passes : ask_advance(p)

SpecSummary == Init /\ [][SummaryNext]_vars

\* The orchestrator under single-agent passes whose model may suggest an
\* outbound message and whose user may then confirm it
SuggestedDrafts == {<<"Ping the design team">>, <<" ", "o", "k", " ">>}

SuggestedNames == {"Yug", "sean", "Bob"}

\* an assistant text suggesting a message to `name`
Suggest(name, draft) ==
    <<"Sure. ", OutreachLit, name, ColonQuote>> \o draft \o <<Quote, " Shall I?">>

OutreachOutcomes ==
    {[kind |-> "ok", text |-> <<"d">>],
     [kind |-> "ok", text |-> Suggest("sean", <<" ", "o", "k", " ">>)],
     [kind |-> "ok", text |-> Suggest("Yug", <<"Ping the design team">>)],
     [kind |-> "ok", text |-> Suggest("Bob", <<"Ping the design team">>)]}

UserTexts == {<<"h", "i">>, <<"yes please">>, <<" ", "Yes">>}

OutreachNext ==
    \/ \E p \in Passes, text \in UserTexts : ask_recv(p, "self", "none", text)
    \/ \E p \in Passes, o \in OutreachOutcomes : chat_as(p, o)
    \/ \E p \in Passes : ask_advance(p)

SpecOutreach == Init /\ [][OutreachNext]_vars

\* ------------------------------------------------------ the context builder
\* The rows of messages and activities are kept in the order of created_at.

\* the clock readings a call could take
Clocks == {0, 1}

\* sequence s from row i on
Drop(s, i) == SubSeq(s, i, Len(s))

\* "\n".join(...) or "(none)": the lines, or the one line "(none)"
JoinOrNone(lines) == IF lines = << >> THEN << <<"(none)">> >> ELSE lines

\* the builder without limits and without the cut of the content
_build_system_prompt_uncapped(msgs, acts, user, now) ==
    [user |-> user,
     activity_text |-> JoinOrNone(
         [i \in 1..Len(acts) |-> <<"- ", acts[i].user_name, ": ">> \o acts[i].summary]),
     history |-> JoinOrNone(
         [i \in 1..Len(msgs) |-> <<msgs[i].sender_name, ": ">> \o msgs[i].content])]

\* the builder writing the time of the call into the prompt
_build_system_prompt_stamped(msgs, acts, user, now) ==
    [user |-> user,
     activity_text |-> << <<"now: ", ToString(now)>> >>,
     history |-> JoinOrNone(
         [i \in 1..Min(MessageLimit, Len(msgs)) |->
             <<msgs[i].sender_name, ": ">> \o Take(msgs[i].content, ContentCap)])]

\* _build_system_prompt / _get_team_context:
\*   activities: order_by(created_at.desc()).limit(15), rendered reversed;
\*   messages:   order_by(created_at.asc()).limit(30), content[:300].
\* The fixed text around the two blocks names the user and nothing else of
\* the call; `now` is what a clock would give the call.
_build_system_prompt(msgs, acts, user, now) ==
    LET newest == Drop(acts, Len(acts) - Min(ActivityLimit, Len(acts)) + 1)
        first == Take(msgs, MessageLimit)
    IN  [user |-> user,
         activity_text |-> JoinOrNone(
             [i \in 1..Len(newest) |->
                 <<"- ", newest[i].user_name, ": ">> \o newest[i].summary]),
         history |-> JoinOrNone(
             [i \in 1..Len(first) |->
                 <<first[i].sender_name, ": ">> \o Take(first[i].content, ContentCap)])]

\* a content of ContentCap + 1 characters
LongContent(i) == <<ToString(i)>> \o [k \in 1..ContentCap |-> "x"]

IsLong(m) == Len(m.content) > ContentCap

ctxFrame ==
    <<session, pc, req, outcome, status, touched, tpc, tpass, agents, drafts,
      returned, synthesis, calls, transcript, room, notes, notifications, extVars>>

\* some pass commits a message: its content names its place in the log
store_message(long) ==
    /\ Len(messages) < MaxMsgRows
    /\ long => \A i \in 1..Len(messages) : ~IsLong(messages[i])
    /\ LET i == Len(messages) + 1
       IN  messages' = db_commit(messages,
               _save_msg(<< >>, 0, "Sean", <<"user:", "Sean">>, "Sean", "user",
                         IF long THEN LongContent(i) ELSE <<ToString(i)>>),
               "messages")
    /\ built' = << >>
    /\ UNCHANGED <<activities, ctxFrame>>

\* some pass commits an activity entry
store_activity ==
    /\ Len(activities) < MaxActRows
    /\ activities' = db_commit(activities,
           _save_activity(<< >>, 0, "Sean", "Sean", <<ToString(Len(activities) + 1)>>),
           "activities")
    /\ built' = << >>
    /\ UNCHANGED <<messages, ctxFrame>>

\* a builder that marks the user as seen while it reads the store
build_system_prompt_touching(user, now) ==
    /\ Len(built) < 2
    /\ built' = Append(built,
           [user |-> user, now |-> now,
            text |-> _build_system_prompt(messages, activities, user, now)])
    /\ touched' = touched \cup {user}
    /\ UNCHANGED <<messages, activities, session, pc, req, outcome, status, tpc,
                   tpass, agents, drafts, returned, synthesis, calls, transcript,
                   room, notes, notifications, extVars>>

\* a handler builds the system prompt for `user` from the present store
build_system_prompt(user, now) ==
    /\ Len(built) < 2
    /\ built' = Append(built,
           [user |-> user, now |-> now,
            text |-> _build_system_prompt(messages, activities, user, now)])
    /\ UNCHANGED <<messages, activities, ctxFrame>>

ContextNext ==
    \/ \E long \in BOOLEAN : store_message(long)
    \/ store_activity
    \/ \E user \in Users, now \in Clocks : build_system_prompt(user, now)

SpecContext == Init /\ [][ContextNext]_vars

\* ------------------------------------------------------------ GET /messages
\* Two servers whose stores are filled independently, asked the same question.

\* rows a store holds at most
MaxLogRows == 3

\* MessageOut: the fields of a row that the response carries (the content
\* names the message, as id and created_at do)
MessageOut(m) ==
    [sender_id |-> m.sender_id, sender_name |-> m.sender_name, role |-> m.role,
     content |-> m.content]

\* get_messages without the filter on user_id
get_messages_all(store, user) == [i \in 1..Len(store) |-> MessageOut(store[i])]

\* get_messages: the query filter(user_id == user.id).order_by(created_at.asc())
get_messages(store, user) ==
    LET own == SelectSeq(store, LAMBDA m : m.user_id = user)
    IN  [i \in 1..Len(own) |-> MessageOut(own[i])]

msgFrame ==
    <<activities, session, pc, req, outcome, status, tpc, tpass, agents, drafts,
      returned, synthesis, calls, transcript, room, notes, notifications, built, agi,
      auxVars>>

\* the next message of user u, named by its number among u's messages
NextMessageOf(store, u) ==
    _save_msg(<< >>, 0, u, <<"user:", u>>, <<u>>, "user",
              <<ToString(Len(SelectSeq(store, LAMBDA m : m.user_id = u)) + 1)>>)

\* some pass of the first server commits a message of user u
commit_message(u) ==
    /\ Len(messages) < MaxLogRows
    /\ messages' = db_commit(messages, NextMessageOf(messages, u), "messages")
    /\ responses' = << >>
    /\ UNCHANGED <<messages2, touched, msgFrame>>

\* some pass of the second server commits a message of user u
commit_message2(u) ==
    /\ Len(messages2) < MaxLogRows
    /\ messages2' = db_commit(messages2, NextMessageOf(messages2, u), "messages")
    /\ responses' = << >>
    /\ UNCHANGED <<messages, touched, msgFrame>>

\* GET /messages of `user`, sent to both servers: require_user, touch, the query
get_messages_both(user) ==
    /\ responses = << >>
    /\ touched' = touched \cup {user}
    /\ responses' = <<[user |-> user,
                       rows |-> get_messages(messages, user),
                       rows2 |-> get_messages(messages2, user)]>>
    /\ UNCHANGED <<messages, messages2, msgFrame>>

MessagesNext ==
    \/ \E u \in Users : commit_message(u)
    \/ \E u \in Users : commit_message2(u)
    \/ \E user \in Users : get_messages_both(user)

SpecMessages == Init /\ [][MessagesNext]_vars

\* -------------------------------------------------------- _do_agi_research
\* for _ in range(45)
PollLimit == 45

\* content[:3000]
ResultCap == 3000

agiFrame ==
    <<httpVars, tpc, tpass, agents, drafts, returned, synthesis, calls, transcript,
      room, notes, notifications, built, messages2, responses, auxVars>>

\* return <text>
research_return(t) ==
    agi' = [agi EXCEPT !.pc = "done", !.result = [kind |-> "text", text |-> t]]

\* except Exception as e: return f"AGI research error: {e}"
research_except(e) == research_return(<<"AGI research error: ", e>>)

\* the key check
research_start(key) ==
    /\ agi.pc = "idle"
    /\ IF ~key
       THEN research_return(<<"AGI API key not configured. Add AGI_API_KEY to your .env">>)
       ELSE agi' = [agi EXCEPT !.pc = "create"]
    /\ UNCHANGED agiFrame

CreateReplies == {"created", "noid", "refused", "raise"}

\* 1. POST /sessions
research_create_session(reply) ==
    /\ agi.pc = "create"
    /\ CASE reply = "created" -> agi' = [agi EXCEPT !.pc = "send", !.session = TRUE]
         [] reply = "noid" -> research_return(<<"AGI returned no session ID: ", "{}">>)
         [] reply = "refused" ->
              research_return(<<"AGI session creation failed (", "500", "): ", "e">>)
         [] OTHER -> research_except("Request timed out.")
    /\ UNCHANGED agiFrame

SendReplies == {"accepted", "refused", "raise"}

\* 2. POST /sessions/{session_id}/message
research_send_task(reply) ==
    /\ agi.pc = "send"
    /\ CASE reply = "accepted" -> agi' = [agi EXCEPT !.pc = "poll"]
         [] reply = "refused" ->
              research_return(<<"AGI task send failed (", "500", "): ", "e">>)
         [] OTHER -> research_except("Request timed out.")
    /\ UNCHANGED agiFrame

PollReplies == {"non200", "running", "finished", "failed", "raise"}

\* a poll loop in which a response other than 200 does not use up a turn
research_poll_uncounted(reply) ==
    /\ agi.pc = "poll"
    /\ agi.polls < PollLimit \/ reply = "non200"
    /\ CASE reply \in {"non200", "running"} -> agi' = [agi EXCEPT !.polls = @ + 1]
         [] reply = "finished" -> agi' = [agi EXCEPT !.polls = @ + 1, !.pc = "result"]
         [] reply = "failed" ->
              agi' = [agi EXCEPT !.polls = @ + 1, !.pc = "done",
                         !.result = [kind |-> "text",
                                     text |-> <<"AGI research failed with status: ", "failed">>]]
         [] OTHER ->
              agi' = [agi EXCEPT !.polls = @ + 1, !.pc = "done",
                         !.result = [kind |-> "text",
                                     text |-> <<"AGI research error: ", "Request timed out.">>]]
    /\ UNCHANGED agiFrame

\* 3. one turn of the poll loop: GET /sessions/{session_id}/status
research_poll(reply) ==
    /\ agi.pc = "poll"
    /\ agi.polls < PollLimit
    /\ CASE reply \in {"non200", "running"} -> agi' = [agi EXCEPT !.polls = @ + 1]
         [] reply = "finished" -> agi' = [agi EXCEPT !.polls = @ + 1, !.pc = "result"]
         [] reply = "failed" ->
              agi' = [agi EXCEPT !.polls = @ + 1, !.pc = "done",
                         !.result = [kind |-> "text",
                                     text |-> <<"AGI research failed with status: ", "failed">>]]
         [] OTHER ->
              agi' = [agi EXCEPT !.polls = @ + 1, !.pc = "done",
                         !.result = [kind |-> "text",
                                     text |-> <<"AGI research error: ", "Request timed out.">>]]
    /\ UNCHANGED agiFrame

ResultReplies == {"non200", "typed", "last", "empty", "raise"}

\* the status is finished: GET /sessions/{session_id}/messages
research_fetch_result(reply) ==
    /\ agi.pc = "result"
    /\ CASE reply = "typed" -> research_return(Take(<<"f", "i", "n", "d">>, ResultCap))
         [] reply = "last" -> research_return(Take(<<"l", "a", "s", "t">>, ResultCap))
         [] reply \in {"non200", "empty"} ->
              research_return(<<"Research complete but no result text found.">>)
         [] OTHER -> research_except("Request timed out.")
    /\ UNCHANGED agiFrame

\* the loop is used up: DELETE /sessions/{session_id} (its exception is
\* passed over), then the timeout text
research_exhausted ==
    /\ agi.pc = "poll"
    /\ agi.polls = PollLimit
    /\ agi' = [agi EXCEPT !.pc = "done", !.deleted = TRUE,
                   !.result = [kind |-> "text",
                               text |-> <<"AGI research timed out after 90s. The query may have been too complex.">>]]
    /\ UNCHANGED agiFrame

ResearchNext ==
    \/ \E key \in BOOLEAN : research_start(key)
    \/ \E reply \in CreateReplies : research_create_session(reply)
    \/ \E reply \in SendReplies : research_send_task(reply)
    \/ \E reply \in PollReplies : research_poll(reply)
    \/ \E reply \in ResultReplies : research_fetch_result(reply)
    \/ research_exhausted

\* every HTTP call returns or raises within its timeout (requests timeout=30,
\* 15, 10) and time.sleep(2) returns
SpecResearch ==
    /\ Init
    /\ [][ResearchNext]_vars
    /\ WF_vars(\E key \in BOOLEAN : research_start(key))
    /\ WF_vars(\E reply \in CreateReplies : research_create_session(reply))
    /\ WF_vars(\E reply \in SendReplies : research_send_task(reply))
    /\ WF_vars(\E reply \in PollReplies : research_poll(reply))
    /\ WF_vars(\E reply \in ResultReplies : research_fetch_result(reply))
    /\ WF_vars(research_exhausted)

\* ---------------------------------------------------------------- /voice/ws
\* everything but the state of the parts modelled from here on
baseVars ==
    <<httpVars, tpc, tpass, agents, drafts, returned, synthesis, calls, transcript,
      room, notes, notifications, built, messages2, responses, agi>>

Others(part) == UNCHANGED baseVars /\ AuxOthers(part)

\* the finally block left out: the thread is started at the end of the try
\* block only
ws_close_on_success(raised) ==
    /\ ws.pc = "running"
    /\ ws' = [ws EXCEPT !.pc = "closed", !.error = raised,
                  !.threads = IF ws.call_id # "" /\ ~raised
                              THEN Append(@, <<ws.call_id, ws.caller>>) ELSE @]
    /\ Others("ws")

\* voice_websocket: the query parameters are read and the socket accepted
ws_accept(caller, url) ==
    /\ ws.pc = "idle"
    /\ ws' = [ws EXCEPT !.pc = "accepted", !.caller = caller, !.url = url,
                  !.call_id = url]
    /\ Others("ws")

\* receive_json: the first message raises, or carries the stream metadata
\* with callId `meta`; the recording is started when a call id is known
ws_start(raised, meta) ==
    /\ ws.pc = "accepted"
    /\ IF raised
       THEN ws' = [ws EXCEPT !.pc = "closing", !.error = TRUE]
       ELSE LET id == IF ws.call_id = "" THEN meta ELSE ws.call_id
            IN  ws' = [ws EXCEPT !.pc = "running", !.meta = meta, !.call_id = id,
                          !.recording = IF id # "" THEN 1 ELSE 0]
    /\ Others("ws")

\* run_agent returns at the hangup or raises; then the finally block
ws_close(raised) ==
    /\ ws.pc = "running"
    /\ ws' = [ws EXCEPT !.pc = "closed", !.error = raised,
                  !.threads = IF ws.call_id # ""
                              THEN Append(@, <<ws.call_id, ws.caller>>) ELSE @]
    /\ Others("ws")

\* the finally block after an exception of receive_json
ws_close_early ==
    /\ ws.pc = "closing"
    /\ ws' = [ws EXCEPT !.pc = "closed",
                  !.threads = IF ws.call_id # ""
                              THEN Append(@, <<ws.call_id, ws.caller>>) ELSE @]
    /\ Others("ws")

\* ------------------------------------ _fetch_and_transcribe_recording, by step
\* for attempt in range(10)
LookupLimit == 10

recFrame ==
    <<session, pc, req, outcome, status, touched, tpc, tpass, agents, drafts,
      returned, synthesis, calls, transcript, room, notes, notifications, built,
      messages2, responses, agi>>

\* the caller the thread was started for
RecCaller == ws.threads[1][2]

\* the run ends
rec_done(notice) ==
    rec' = [rec EXCEPT !.pc = "done",
                       !.notices = IF notice = "" THEN @ ELSE Append(@, notice)]

\* the thread begins: without a Plivo client the run ends at once
rec_begin(plivo) ==
    /\ rec.pc = "idle"
    /\ ws.threads # << >>
    /\ IF plivo THEN rec' = [rec EXCEPT !.pc = "polling"] ELSE rec_done("")
    /\ UNCHANGED <<messages, activities, recFrame>>
    /\ AuxOthers("rec")

LookupReplies == {"url", "nourl", "non200", "raise"}

\* one turn of the lookup loop: GET .../Recording/?call_uuid=...
rec_lookup(reply) ==
    /\ rec.pc = "polling"
    /\ rec.lookups < LookupLimit
    /\ rec' = [rec EXCEPT !.lookups = @ + 1,
                           !.found = IF reply = "url" THEN rec.lookups + 1 ELSE @,
                           !.pc = IF reply = "url" THEN "download" ELSE @]
    /\ UNCHANGED <<messages, activities, recFrame>>
    /\ AuxOthers("rec")

\* the loop is used up without a URL: the notice, then return
rec_unavailable ==
    /\ rec.pc = "polling"
    /\ rec.lookups = LookupLimit
    /\ rec_done("unavailable")
    /\ messages' = _save_msg_sync(messages, 0, RecCaller,
           <<"[Voice Call] Call completed but recording was not available for transcription.">>,
           "assistant")
    /\ UNCHANGED <<activities, recFrame>>
    /\ AuxOthers("rec")

DownloadReplies == {"ok", "non200", "raise"}

\* the download of the recording
rec_download(reply) ==
    /\ rec.pc = "download"
    /\ IF reply = "ok"
       THEN rec' = [rec EXCEPT !.pc = "transcribe", !.downloads = @ + 1]
       ELSE rec' = [rec EXCEPT !.pc = "done", !.downloads = @ + 1]
    /\ UNCHANGED <<messages, activities, recFrame>>
    /\ AuxOthers("rec")

TranscribeResults == {"empty", "transcript", "failed", "activityfailed"}

\* the Whisper call and what follows it
rec_transcribe(result) ==
    /\ rec.pc = "transcribe"
    /\ rec' = [rec EXCEPT !.pc = "done", !.transcriptions = @ + 1,
                           !.notices =
                               CASE result = "transcript" -> Append(@, "transcript")
                                 [] result = "failed" -> Append(@, "failed")
                                 [] result = "activityfailed" ->
                                        @ \o <<"transcript", "failed">>
                                 [] OTHER -> @]
    /\ CASE result = "transcript" ->
              /\ messages' = _save_msg_sync(messages, 0, RecCaller,
                     <<"[Voice Call Transcript]\n\n", "h", "i">>, "assistant")
              /\ activities' = _save_activity_sync(activities, 0, RecCaller,
                     <<"[Voice Call] ">> \o Take(<<"h", "i">>, TranscriptPreviewCap))
         [] result = "failed" ->
              /\ messages' = _save_msg_sync(messages, 0, RecCaller,
                     <<"[Voice Call] Call completed. Transcription failed: ",
                       "Connection error.">>, "assistant")
              /\ UNCHANGED activities
         [] result = "activityfailed" ->
              /\ messages' = _save_msg_sync(
                     _save_msg_sync(messages, 0, RecCaller,
                         <<"[Voice Call Transcript]\n\n", "h", "i">>, "assistant"),
                     0, RecCaller,
                     <<"[Voice Call] Call completed. Transcription failed: ",
                       "database is locked">>, "assistant")
              /\ UNCHANGED activities
         [] OTHER -> UNCHANGED <<messages, activities>>
    /\ UNCHANGED recFrame
    /\ AuxOthers("rec")

\* one call: the connection, then the thread it starts
CallNext ==
    \/ \E caller \in {"Sean", "Unknown"}, url \in {"", "u1"} : ws_accept(caller, url)
    \/ \E raised \in BOOLEAN, meta \in {"", "m1"} : ws_start(raised, meta)
    \/ \E raised \in BOOLEAN : ws_close(raised)
    \/ ws_close_early
    \/ \E plivo \in BOOLEAN : rec_begin(plivo)
    \/ \E reply \in LookupReplies : rec_lookup(reply)
    \/ rec_unavailable
    \/ \E reply \in DownloadReplies : rec_download(reply)
    \/ \E result \in TranscribeResults : rec_transcribe(result)

SpecCall == Init /\ [][CallNext]_vars

\* ------------------------------------------------- generate_summary, by step
summFrame ==
    <<session, pc, req, outcome, status, tpc, tpass, agents, drafts, returned,
      synthesis, calls, transcript, room, notes, notifications, built, messages2,
      responses, agi>>

\* raise HTTPException(code, ...)
summ_raise(code) == summ' = [summ EXCEPT !.pc = "done", !.status = code]

\* authentication, touch, the Composio and OpenAI clients, the message query
summ_begin(tok, u, composio) ==
    /\ summ.pc = "idle"
    /\ IF ~tok
       THEN summ_raise("401") /\ UNCHANGED touched
       ELSE /\ touched' = touched \cup {u}
            /\ IF ~composio \/ _client_for_user(u) = "none"
               THEN summ_raise("500")
               ELSE IF messages = << >>
               THEN summ_raise("400")
               ELSE summ' = [summ EXCEPT !.pc = "summarize", !.user = u,
                                         !.n = Len(messages)]
    /\ UNCHANGED <<messages, activities, summFrame>>
    /\ AuxOthers("summ")

\* step 1: the summary completion; an exception is a 502
summ_summarize(o) ==
    /\ summ.pc = "summarize"
    /\ IF o.kind = "raise"
       THEN summ' = [summ EXCEPT !.pc = "done", !.status = "502",
                                 !.attempted = Append(@, "summarize")]
       ELSE summ' = [summ EXCEPT !.pc = "doc", !.attempted = Append(@, "summarize")]
    /\ UNCHANGED <<messages, activities, touched, summFrame>>
    /\ AuxOthers("summ")

\* what step 2 can meet: a result with a document URL or id in it, a result
\* without one, no Google Docs tools, an exception
DocResults == {"url", "nourl", "skipped", "error"}

\* the status an entry of results["steps"] gets
StepStatus(result) ==
    CASE result \in {"skipped", "error"} -> result
      [] OTHER -> "success"

\* a step 2 whose exception ends the request
summ_doc_abort(result) ==
    /\ summ.pc = "doc"
    /\ IF result = "error"
       THEN summ' = [summ EXCEPT !.pc = "done", !.status = "500",
                                 !.attempted = Append(@, "google_doc")]
       ELSE summ' = [summ EXCEPT
                        !.pc = "email",
                        !.attempted = Append(@, "google_doc"),
                        !.steps = Append(@, [step |-> "google_doc",
                                             status |-> StepStatus(result)]),
                        !.doc_url = (result = "url")]
    /\ UNCHANGED <<messages, activities, touched, summFrame>>
    /\ AuxOthers("summ")

\* step 2: the Google Doc; its exception is caught and recorded
summ_doc(result) ==
    /\ summ.pc = "doc"
    /\ summ' = [summ EXCEPT
                   !.pc = "email",
                   !.attempted = Append(@, "google_doc"),
                   !.steps = Append(@, [step |-> "google_doc",
                                        status |-> StepStatus(result)]),
                   !.doc_url = (result = "url")]
    /\ UNCHANGED <<messages, activities, touched, summFrame>>
    /\ AuxOthers("summ")

\* what step 3 can meet: the mail sent, no Gmail tools, an exception
EmailResults == {"success", "skipped", "error"}

\* step 3: the e-mail; then the activity and the report message are
\* committed and the results returned
summ_email(result, email_to) ==
    /\ summ.pc = "email"
    /\ summ' = [summ EXCEPT
                   !.pc = "done", !.status = "200",
                   !.attempted = Append(@, "email"),
                   !.steps = Append(@, [step |-> "email", status |-> StepStatus(result)])]
    /\ LET p1 == _save_activity(<< >>, 0, summ.user, summ.user,
                     <<"[Summary] Generated & emailed to ", email_to>>)
           p2 == _save_msg(p1, 0, summ.user, <<"agent:", summ.user>>,
                     <<summ.user, "'s Agent">>, "assistant",
                     <<"[Summary Report] Created summary with ", ToString(summ.n),
                       " messages. ">>
                         \o (IF summ.doc_url THEN <<"Google Doc created. ">> ELSE << >>)
                         \o <<"Emailed to ", email_to, ".">>)
       IN  /\ messages' = db_commit(messages, p2, "messages")
           /\ activities' = db_commit(activities, p2, "activities")
    /\ UNCHANGED <<touched, summFrame>>
    /\ AuxOthers("summ")

\* one POST /summary/generate beside passes that commit messages
SummarizeNext ==
    \/ \E u \in Users : commit_message(u)
    \/ \E tok, composio \in BOOLEAN, u \in Users : summ_begin(tok, u, composio)
    \/ \E o \in LogOutcomes : summ_summarize(o)
    \/ \E result \in DocResults : summ_doc(result)
    \/ \E result \in EmailResults : summ_email(result, "a@b.c")

SpecSummarize == Init /\ [][SummarizeNext]_vars

\* ----------------------------------------------------- the TeamGraph object
\* how many set_entry_point calls on the object are followed
MaxGraphOps == 3

\* the names a caller can pass to set_entry_point
PointNames == EntryNames \cup {"summarize", ""}

\* a set_entry_point that assigns before it validates
set_entry_point_unchecked(name) ==
    /\ Len(graph.history) < MaxGraphOps
    /\ graph' = [graph EXCEPT
                    !.entry = name,
                    !.history = Append(@, [name |-> name, raised |-> name \notin EntryNames,
                                           before |-> graph.entry, after |-> name])]
    /\ Others("graph")

\* TeamGraph.set_entry_point: ValueError for a name that is none of the three
set_entry_point(name) ==
    /\ Len(graph.history) < MaxGraphOps
    /\ LET raised == name \notin EntryNames
           after == IF raised THEN graph.entry ELSE name
       IN  graph' = [graph EXCEPT
                       !.entry = after,
                       !.history = Append(@, [name |-> name, raised |-> raised,
                                              before |-> graph.entry, after |-> after])]
    /\ Others("graph")

\* TeamGraph.compile: the graph built for the entry point the object holds
compile ==
    /\ graph' = [graph EXCEPT !.compiled = [kind |-> "graph", entry |-> graph.entry,
                                            g |-> Compile(graph.entry)]]
    /\ Others("graph")

GraphNext ==
    \/ \E name \in PointNames : set_entry_point(name)
    \/ compile

SpecGraph == Init /\ [][GraphNext]_vars

\* ------------------------------------- spoon_os beside spoon_official
\* _chat_as: the messages of a draft call
ChatAsMsgs(agent_id, sys_ctx, asker, prompt) ==
    <<[role |-> "system", content |-> sys_ctx],
      [role |-> "system", content |-> <<"You are ", Label(agent_id), ". Provide your perspective.">>],
      [role |-> "user", content |-> <<asker, " asks:\n">> \o prompt]>>

\* the drafts loop of either module: _chat_as for each member in turn, the
\* i-th completion doing outs[i]; the first exception (the CLIENTS lookup or
\* the completion) ends the run
RECURSIVE RunDrafts(_, _, _, _, _)
RunDrafts(members, temperature, in, outs, acc) ==
    IF members = << >>
    THEN [calls |-> acc.calls, result |-> [kind |-> "drafts", drafts |-> acc.drafts]]
    ELSE LET a == Head(members)
             call == [agent |-> a, temperature |-> temperature,
                      msgs |-> ChatAsMsgs(a, in.sys_ctx, in.asker, in.prompt)]
         IN  IF a \notin CLIENTS
             THEN [calls |-> acc.calls, result |-> [kind |-> "raise", text |-> "KeyError"]]
             ELSE IF Head(outs).kind = "raise"
             THEN [calls |-> Append(acc.calls, call),
                   result |-> [kind |-> "raise", text |-> Head(outs).text]]
             ELSE RunDrafts(Tail(members), temperature, in, Tail(outs),
                      [calls |-> Append(acc.calls, call),
                       drafts |-> Append(acc.drafts, <<a, Head(outs).text>>)])

NoDrafts == [calls |-> << >>, drafts |-> << >>]

\* the messages of the coordinator's call, for the input's context
SynthMsgsOf(in) ==
    <<[role |-> "system", content |-> <<"You are the coordinator.">>],
      [role |-> "system", content |-> in.sys_ctx],
      [role |-> "user", content |-> <<"Latest human message from ", in.asker, ":\n">>
                                        \o in.prompt]>>
        \o [i \in 1..Len(in.drafts) |->
               [role |-> "assistant",
                content |-> <<Label(in.drafts[i][1]), " draft:\n">> \o in.drafts[i][2]]]

\* the coordinator's call of either module
RunSynthesis(in, outs) ==
    IF "coordinator" \notin CLIENTS
    THEN [calls |-> << >>, result |-> [kind |-> "raise", text |-> "KeyError"]]
    ELSE [calls |-> <<[agent |-> "coordinator", temperature |-> "0.35",
                       msgs |-> SynthMsgsOf(in)]>>,
          result |-> Head(outs)]

\* spoon_os.ask_one, ask_team, synthesize
spoon_os(in, outs) ==
    CASE in.fn = "ask_one" -> RunDrafts(<<in.target>>, "0.35", in, outs, NoDrafts)
      [] in.fn = "ask_team" -> RunDrafts(TEAM, "0.4", in, outs, NoDrafts)
      [] OTHER -> RunSynthesis(in, outs)

\* spoon_official.node_ask_one, node_ask_team, node_synthesize
spoon_official(in, outs) ==
    CASE in.fn = "ask_one" ->
            RunDrafts(<<IF in.target = "none" THEN DefaultTarget ELSE in.target>>,
                      "0.35", in, outs, NoDrafts)
      [] in.fn = "ask_team" -> RunDrafts(TEAM, "0.4", in, outs, NoDrafts)
      [] OTHER -> RunSynthesis(in, outs)

\* the inputs: the function, the target (for ask_one; "none": no target), the
\* asker, the prompt, the context, the drafts (for synthesize), and what the
\* completions do in turn
EquivInputs ==
    {in \in [fn : EntryNames, target : {"none", "yug", "sean", "severin"},
             asker : {"Sean", "Yug"}, prompt : {<<"h", "i">>, <<"?">>},
             sys_ctx : {<<"c">>}, drafts : GivenDrafts,
             outs : [1..2 -> TeamOutcomes]] :
        /\ in.fn # "ask_one" => in.target = "none"
        /\ in.fn # "synthesize" => in.drafts = << >>}

\* the input goes to spoon_os
equiv_os(in) ==
    /\ equiv.pc = "idle"
    /\ equiv' = [equiv EXCEPT !.pc = "os", !.input = in, !.os = spoon_os(in, in.outs)]
    /\ Others("equiv")

\* the same input, with the completions doing the same, goes to
\* spoon_official
equiv_official ==
    /\ equiv.pc = "os"
    /\ equiv' = [equiv EXCEPT !.pc = "both",
                     !.official = spoon_official(equiv.input, equiv.input.outs)]
    /\ Others("equiv")

EquivNext ==
    \/ \E in \in EquivInputs : equiv_os(in)
    \/ equiv_official

SpecEquiv == Init /\ [][EquivNext]_vars

\* ------------------------------------------------------------ /auth/register
\* the addresses a register request can carry
Emails == {"sean@parallel.dev", "new@parallel.dev", "other@parallel.dev"}

\* db.query(UserORM).filter(UserORM.email == email).first()
UserByEmail(users, email) ==
    \E i \in 1..Len(users) : users[i].email = email

\* a commit on a users table whose email column is not unique
register_commit_unconstrained(g) ==
    /\ accounts.reg[g].pc = "adding"
    /\ LET q == accounts.reg[g]
           u == [id |-> ToString(g), email |-> q.email, name |-> "New"]
       IN  accounts' = [accounts EXCEPT
                           !.users = Append(@, u),
                           !.credentials = Append(@, [user_id |-> u.id]),
                           !.reg[g] = [q EXCEPT !.pc = "done", !.status = "200",
                                                !.added = <<1, 1>>]]
    /\ Others("accounts")

\* register up to the email query: a registered email is a 400
register_check(g, email) ==
    /\ accounts.reg[g].pc = "idle"
    /\ LET found == UserByEmail(accounts.users, email)
       IN  accounts' = [accounts EXCEPT
                           !.reg[g] = [@ EXCEPT !.pc = IF found THEN "done" ELSE "adding",
                                                !.email = email,
                                                !.found = found,
                                                !.status = IF found THEN "400" ELSE ""]]
    /\ Others("accounts")

\* register from db.add on: the user (id a fresh uuid4) and its credential are
\* added to the session and committed together; users.email is unique, so the
\* commit of an email registered meanwhile raises and the session's rows are
\* not written
register_commit(g) ==
    /\ accounts.reg[g].pc = "adding"
    /\ LET q == accounts.reg[g]
           u == [id |-> ToString(g), email |-> q.email, name |-> "New"]
       IN  IF UserByEmail(accounts.users, q.email)
           THEN accounts' = [accounts EXCEPT
                                !.reg[g] = [q EXCEPT !.pc = "done", !.status = "500"]]
           ELSE accounts' = [accounts EXCEPT
                                !.users = Append(@, u),
                                !.credentials = Append(@, [user_id |-> u.id]),
                                !.reg[g] = [q EXCEPT !.pc = "done", !.status = "200",
                                                     !.added = <<1, 1>>]]
    /\ Others("accounts")

\* register requests, served concurrently
RegisterNext ==
    \/ \E g \in Regs, email \in Emails : register_check(g, email)
    \/ \E g \in Regs : register_commit(g)

SpecRegister == Init /\ [][RegisterNext]_vars

\* ------------------------------------------------------- _client_for_user
\* str.lower() of a word; a text is a sequence of words and blanks
LowerWord(w) ==
    CASE w \in {"Sean", "SEAN", "sean"} -> "sean"
      [] w \in {"Yug", "YUG", "yug"} -> "yug"
      [] w \in {"Bob", "bob"} -> "bob"
      [] w \in {"Ann", "ann"} -> "ann"
      [] OTHER -> w

\* (user.name or "").strip().lower()
NameKey(name) ==
    LET text == IF name = NoName THEN << >> ELSE name.text
    IN  [i \in 1..Len(Strip(text)) |-> LowerWord(Strip(text)[i])]

\* the client registered under key k
Client(k) == [kind |-> "client", key |-> k]

\* a lookup that lower-cases the name but does not trim it
client_for_user_untrimmed(clients, name) ==
    LET text == IF name = NoName THEN << >> ELSE name.text
        key == [i \in 1..Len(text) |-> LowerWord(text[i])]
    IN  IF \E i \in 1..Len(clients) : clients[i] = key THEN Client(key)
        ELSE IF \E i \in 1..Len(clients) : clients[i] = <<"sean">> THEN Client(<<"sean">>)
        ELSE IF clients # << >> THEN Client(clients[1])
        ELSE None

\* _client_for_user over a CLIENTS mapping given by its keys in insertion
\* order (every value is a client, which is truthy): the key whose client is
\* returned, None if none is
client_for_user(clients, name) ==
    LET key == NameKey(name)
    IN  IF \E i \in 1..Len(clients) : clients[i] = key THEN Client(key)
        ELSE IF \E i \in 1..Len(clients) : clients[i] = <<"sean">> THEN Client(<<"sean">>)
        ELSE IF clients # << >> THEN Client(clients[1])
        ELSE None

ClientKeys == {<<"sean">>, <<"yug">>, <<"bob">>}

\* the CLIENTS mappings: every sequence of distinct keys
ClientPools ==
    {<< >>} \cup {<<a>> : a \in ClientKeys}
        \cup {<<a, b>> : <<a, b>> \in {q \in ClientKeys \X ClientKeys : q[1] # q[2]}}
        \cup {<<a, b, c>> : <<a, b, c>> \in
                 {q \in ClientKeys \X ClientKeys \X ClientKeys :
                     q[1] # q[2] /\ q[1] # q[3] /\ q[2] # q[3]}}

\* user names, each with the key it names written out: no name, the empty
\* and the blank name, names in several cases with blanks around them, a
\* name of two words, a name no client is registered under
NamedKeys ==
    {[name |-> NoName, key |-> << >>],
     [name |-> [text |-> << >>], key |-> << >>],
     [name |-> [text |-> <<" ">>], key |-> << >>],
     [name |-> [text |-> <<"Sean">>], key |-> <<"sean">>],
     [name |-> [text |-> <<" ", "SEAN", " ">>], key |-> <<"sean">>],
     [name |-> [text |-> <<"Yug">>], key |-> <<"yug">>],
     [name |-> [text |-> <<" ", "yug">>], key |-> <<"yug">>],
     [name |-> [text |-> <<"Bob", " ", " ">>], key |-> <<"bob">>],
     [name |-> [text |-> <<"Yug", " ", "Bob">>], key |-> <<"yug", " ", "bob">>],
     [name |-> [text |-> <<"Ann">>], key |-> <<"ann">>]}

\* _client_for_user is called for a user, under some CLIENTS
client_lookup(clients, in) ==
    /\ lookup' = [pc |-> "done", clients |-> clients, name |-> in.name, key |-> in.key,
                  result |-> client_for_user(clients, in.name)]
    /\ Others("lookup")

LookupNext == \E clients \in ClientPools, in \in NamedKeys : client_lookup(clients, in)

SpecLookup == Init /\ [][LookupNext]_vars

\* --------------------------------------------------------------- the claims
\* the committed messages of pass r with the given role
MsgsOf(r, role) == SelectSeq(messages, LAMBDA m : m.pass = r /\ m.role = role)

\* pass r is a POST /chat pass that got past authentication and the empty check
ChatPass(r) == pc[r] # "idle" /\ req[r].path = "chat" /\ status[r] \notin {"401", "400"}

\* the external call of pass r failed
Failed(r) == outcome[r].kind \in {"raise", "exhausted"}

UserMsgStored(r) ==
    \E i \in 1..Len(messages) :
        /\ messages[i].pass = r
        /\ messages[i].role = "user"
        /\ messages[i].content = req[r].content

\* C1: in every POST /chat pass the user message is committed from the first
\* commit on, also after the chat, research or action call has failed: a
\* failure does not take it out of the store.
C1_UserMessageDurable ==
    \A r \in Reqs : ChatPass(r) => UserMsgStored(r)

C1_Witness ==
    \E r \in Reqs :
        ChatPass(r) /\ pc[r] = "done" /\ outcome[r].kind = "raise" /\ UserMsgStored(r)

\* C2: on every inbound path (POST /chat, /sms/incoming, /voice/transcription)
\* the user message of a pass is committed before the pass's model call is
\* issued, so whenever a call is in flight the message is in the store.
C2_CommittedBeforeCall ==
    \A r \in Reqs : pc[r] = "calling" => UserMsgStored(r)

\* C6: a POST /chat pass in normal chat mode adds exactly one user message
\* and, once it has replied, exactly one assistant message.
C6_OneDraftPersisted ==
    \A r \in Reqs :
        (ChatPass(r) /\ req[r].mode = "chat") =>
            /\ Len(MsgsOf(r, "user")) = 1
            /\ Len(MsgsOf(r, "assistant")) = (IF pc[r] = "done" THEN 1 ELSE 0)

C6_Witness ==
    \E r \in Reqs :
        /\ ChatPass(r) /\ req[r].mode = "chat" /\ pc[r] = "done"
        /\ outcome[r].kind = "ok"
        /\ Len(MsgsOf(r, "assistant")) = 1

\* C8: when the model call of a pass fails, the persisted assistant message is
\* the generic text and holds nothing of the exception.
C8_FailureTextGeneric ==
    \A r \in Reqs :
        (pc[r] = "done" /\ outcome[r].kind = "raise") =>
            \A i \in 1..Len(messages) :
                (messages[i].pass = r /\ messages[i].role = "assistant") =>
                    /\ messages[i].content = GenericFailureText
                    /\ ~Contains(messages[i].content, outcome[r].text)

\* C9: every POST /chat pass that committed its user message goes on to commit
\* an assistant message and return 200, whatever the external call does.
C9_AlwaysReplies ==
    \A r \in Reqs :
        (pc[r] = "saved") ~>
            (pc[r] = "done" /\ status[r] = "200" /\ Len(MsgsOf(r, "assistant")) = 1)

C9_Witness ==
    \E r \in Reqs :
        /\ ChatPass(r) /\ pc[r] = "done" /\ status[r] = "200"
        /\ Failed(r)
        /\ Len(MsgsOf(r, "assistant")) = 1

\* a team pass: the generator was asked for the whole roster
TeamPass(p) == tpass[p] # None /\ tpass[p].fn = "ask_team" /\ tpc[p] # "idle"

\* a completion of pass p failed (as opposed to a lookup in the client pool)
CompletionFailed(p) ==
    \/ returned[p].kind = "raise" /\ returned[p].text = "Request timed out."
    \/ synthesis[p].kind = "raise" /\ synthesis[p].text = "Request timed out."

AgentsCalled(p) == [i \in 1..Len(calls[p]) |-> calls[p][i].agent]

AssistantSenders(p) ==
    LET rows == SelectSeq(transcript, LAMBDA m : m.pass = p /\ m.role = "assistant")
    IN  [i \in 1..Len(rows) |-> rows[i].sender_id]

\* C3: a pass whose synthesis text has no SUMMARY_UPDATE: marker leaves the
\* room's summary fields as they were, and a pass whose synthesis text has the
\* marker writes the update into them.
C3_SummaryOnlyOnMarker ==
    [][\A p \in Passes :
          (tpc[p] = "synthesized" /\ tpc'[p] = "end") =>
              IF HasMarker(synthesis[p].text)
              THEN /\ room'.project_summary = AfterMarker(synthesis[p].text)
                   /\ room'.memory_summary = AfterMarker(synthesis[p].text)
              ELSE room' = room]_vars

C3_Witness ==
    \E p, q \in Passes :
        /\ tpc[p] = "end" /\ tpc[q] = "end"
        /\ HasMarker(synthesis[p].text) /\ AfterMarker(synthesis[p].text) # << >>
        /\ synthesis[q].kind = "ok" /\ ~HasMarker(synthesis[q].text)
        /\ AssistantSenders(q) # << >>
        /\ room.project_summary = AfterMarker(synthesis[p].text)

\* C4: a team pass whose completions all succeeded calls the four roster
\* members in roster order and then the coordinator, and, once it has ended,
\* has persisted the four drafts and the synthesis in that order.
C4_FourDraftsThenSynthesis ==
    \A p \in Passes :
        (TeamPass(p) /\ tpc[p] \in {"raised", "end"} /\ ~CompletionFailed(p)) =>
            /\ AgentsCalled(p) = TEAM \o <<"coordinator">>
            /\ (tpass[p].via = "ask" /\ tpc[p] = "end") =>
                   AssistantSenders(p) =
                       [i \in 1..Len(TEAM) |-> <<"agent:", TEAM[i]>>]
                           \o << <<"agent:", "coordinator">> >>

\* C5: in a team pass the step after drafting is the synthesis: a compiled
\* graph that runs ask_team continues to synthesize, and no team pass is at
\* its end without the synthesis having been produced.
C5_TeamAlwaysSynthesizes ==
    \A p \in Passes :
        TeamPass(p) =>
            /\ (tpass[p].via = "graph" /\ tpc[p] \in {"drafting", "drafted"}) =>
                   Successor(Compile("ask_team"), "ask_team") = "synthesize"
            /\ tpc[p] = "end" => synthesis[p].kind = "ok"

\* C7: what the draft generator returns is a mapping with one draft for each
\* requested agent, in the order requested, or an error: a batch in which a
\* lookup or a completion failed never returns a mapping.
C7_DraftsAllOrNothing ==
    \A p \in Passes :
        /\ returned[p].kind = "drafts" =>
              /\ Len(returned[p].drafts) = Len(agents[p])
              /\ \A i \in 1..Len(agents[p]) : returned[p].drafts[i][1] = agents[p][i]
        /\ (tpc[p] = "raised" /\ synthesis[p] = None) => returned[p].kind = "raise"

C7_Witness ==
    \E p \in Passes :
        /\ Len(agents[p]) > 1
        /\ Len(drafts[p]) >= 1
        /\ tpc[p] = "raised"
        /\ returned[p].kind = "raise"

\* C10: with several passes of one room carrying a summary update at the
\* same time, the room's summary is the update of the pass that was persisted
\* last, and project_summary and memory_summary hold the same update.
C10_LastWriteWins ==
    LET marked == SelectSeq(transcript,
                      LAMBDA m : m.role = "assistant" /\ HasMarker(m.content))
    IN  /\ room.project_summary = room.memory_summary
        /\ room.project_summary =
               IF marked = << >> THEN NewRoom.project_summary
               ELSE AfterMarker(marked[Len(marked)].content)

C10_Witness ==
    \E p, q \in Passes :
        /\ p # q
        /\ tpc[p] = "end"
        /\ tpc[q] = "end"
        /\ HasMarker(synthesis[p].text) /\ HasMarker(synthesis[q].text)
        /\ AfterMarker(synthesis[p].text) # AfterMarker(synthesis[q].text)
        /\ \E i, j \in 1..Len(transcript) :
              /\ i < j
              /\ transcript[i].pass = p /\ transcript[i].content = synthesis[p].text
              /\ transcript[j].pass = q /\ transcript[j].content = synthesis[q].text
        /\ room.project_summary = AfterMarker(synthesis[q].text)
        /\ room.memory_summary = AfterMarker(synthesis[q].text)

\* the rows pass r has committed by now
RowsDue(r) ==
    CASE req[r] = None -> 0
      [] req[r].path = "chat" /\ pc[r] \in {"saved", "calling"} -> 1
      [] req[r].path = "chat" /\ pc[r] = "done" /\ status[r] = "200" -> 2
      [] req[r].path \in {"sms", "voice"} /\ pc[r] = "done" /\ status[r] = "ok:true"
             /\ req[r].content # << >> -> 2
      [] OTHER -> 0

RECURSIVE SumRowsDue(_)
SumRowsDue(n) == IF n = 0 THEN 0 ELSE RowsDue(n) + SumRowsDue(n - 1)

\* C11: under any interleaving of concurrent POST /chat passes of different
\* users no committed message is lost or overwritten (the store holds every
\* row every pass committed), and the user message of a pass is stored before
\* the assistant reply of that pass.
C11_InsertOnlyRaceFree ==
    /\ Len(messages) = SumRowsDue(MaxReqs)
    /\ \A r \in Reqs :
          ChatPass(r) =>
              /\ Len(MsgsOf(r, "user")) = 1
              /\ MsgsOf(r, "user")[1].content = req[r].content
              /\ \A i, j \in 1..Len(messages) :
                    (/\ messages[i].pass = r /\ messages[i].role = "user"
                     /\ messages[j].pass = r /\ messages[j].role = "assistant") => i < j

C11_Witness ==
    \E r1, r2 \in Reqs :
        /\ r1 # r2
        /\ ChatPass(r1) /\ ChatPass(r2)
        /\ req[r1].user # req[r2].user
        /\ pc[r1] = "done" /\ pc[r2] = "done"
        /\ \E i, j, k \in 1..Len(messages) :
              /\ i < j /\ j < k
              /\ messages[i].pass = r1 /\ messages[i].role = "user"
              /\ messages[j].pass = r2
              /\ messages[k].pass = r1 /\ messages[k].role = "assistant"

\* the row of the user message of pass p in the transcript
UserRow(p) == CHOOSE i \in 1..Len(transcript) :
                  transcript[i].pass = p /\ transcript[i].role = "user"

\* pass p got a confirmation phrase while the room's most recent assistant
\* message suggested `draft` for `name`
Confirmed(p, name, draft) ==
    /\ tpc[p] # "idle"
    /\ IsConfirmation(transcript[UserRow(p)].content)
    /\ LastAssistant(SubSeq(transcript, 1, UserRow(p) - 1)) # None
    /\ LastAssistant(SubSeq(transcript, 1, UserRow(p) - 1)).content = Suggest(name, draft)

NotificationsOf(p) == SelectSeq(notifications, LAMBDA n : n.pass = p)

ContainsSeq(s, t) == \E i \in 0..(Len(s) - Len(t)) : SubSeq(s, i + 1, i + Len(t)) = t

\* C12: a confirmation phrase sent while the most recent assistant message
\* suggests a message to a name that resolves to a user creates one
\* Notification for that user whose text is the suggested text verbatim, and
\* the pass issues no model call.
C12_ConfirmationNotifiesVerbatim ==
    \A p \in Passes, name \in SuggestedNames, draft \in SuggestedDrafts :
        (Confirmed(p, name, draft) /\ ResolveUser(name) # "none") =>
            /\ tpc[p] = "end"
            /\ Len(NotificationsOf(p)) = 1
            /\ NotificationsOf(p)[1].user = ResolveUser(name)
            /\ NotificationsOf(p)[1].message = draft
            /\ calls[p] = << >>

C12_Witness ==
    \E p \in Passes :
        /\ Confirmed(p, "sean", <<" ", "o", "k", " ">>)
        /\ Len(NotificationsOf(p)) = 1
        /\ NotificationsOf(p)[1].user = "Sean"
        /\ \E q \in Passes : calls[q] # << >>

\* C13: a confirmation phrase sent while the most recent assistant message
\* suggests a message to a name no user has is answered with a reply that
\* holds the suggested text verbatim; no Notification is created and the pass
\* issues no model call.
C13_UnresolvedNameApology ==
    \A p \in Passes, name \in SuggestedNames, draft \in SuggestedDrafts :
        (Confirmed(p, name, draft) /\ ResolveUser(name) = "none") =>
            /\ tpc[p] = "end"
            /\ NotificationsOf(p) = << >>
            /\ calls[p] = << >>
            /\ \E i \in 1..Len(transcript) :
                  /\ transcript[i].pass = p
                  /\ transcript[i].role = "assistant"
                  /\ ContainsSeq(transcript[i].content, draft)

C13_Witness ==
    \E p \in Passes :
        /\ Confirmed(p, "Bob", <<"Ping the design team">>)
        /\ tpc[p] = "end"
        /\ notifications = << >>
        /\ Len(transcript) = 4

\* C14: a prompt holds at most 30 history lines and at most 15 activity
\* lines, and the content of every history line is cut to 300 characters,
\* however many rows the store holds.
C14_ContextBounded ==
    \A b \in 1..Len(built) :
        /\ Len(built[b].text.history) <= MessageLimit
        /\ Len(built[b].text.activity_text) <= ActivityLimit
        /\ \A i \in 1..Len(built[b].text.history) :
              Len(built[b].text.history[i]) <= 2 + ContentCap

C14_Witness ==
    \E b \in 1..Len(built) :
        /\ Len(messages) > MessageLimit
        /\ Len(activities) > ActivityLimit
        /\ \E i \in 1..MessageLimit : IsLong(messages[i])
        /\ Len(built[b].text.history) = MessageLimit
        /\ Len(built[b].text.activity_text) = ActivityLimit
        /\ \E i \in 1..MessageLimit : Len(built[b].text.history[i]) = 2 + ContentCap

\* the lines of the rows, as the prompt renders them
HistoryLines(rows) ==
    [i \in 1..Len(rows) |-> <<rows[i].sender_name, ": ">> \o Take(rows[i].content, ContentCap)]

ActivityLines(rows) ==
    [i \in 1..Len(rows) |-> <<"- ", rows[i].user_name, ": ">> \o rows[i].summary]

\* C15: the history block is made of the 30 newest messages and the activity
\* block of the 15 newest activity entries, both oldest first.
C15_NewestSlice ==
    \A b \in 1..Len(built) :
        /\ Len(messages) > MessageLimit =>
              built[b].text.history =
                  HistoryLines(Drop(messages, Len(messages) - MessageLimit + 1))
        /\ Len(activities) > ActivityLimit =>
              built[b].text.activity_text =
                  ActivityLines(Drop(activities, Len(activities) - ActivityLimit + 1))

\* C16: two prompts built for the same user from the same store are equal,
\* whatever the clock gave each call.
C16_ContextIdempotent ==
    \A a, b \in 1..Len(built) :
        built[a].user = built[b].user => built[a].text = built[b].text

C16_Witness ==
    /\ Len(built) = 2
    /\ built[1].user = built[2].user
    /\ built[1].now # built[2].now
    /\ messages # << >>
    /\ activities # << >>
    /\ built[1].text = built[2].text

\* C17: a POST /chat of an authenticated user whose content is empty or only
\* whitespace is rejected with status 400; it issues no model, research or
\* action call and leaves no message and no activity entry.
C17_EmptyRejected ==
    \A r \in Reqs :
        (req[r] # None /\ req[r].path = "chat" /\ req[r].user # "none" /\ req[r].blank) =>
            /\ pc[r] = "done"
            /\ status[r] = "400"
            /\ outcome[r] = None
            /\ session[r] = << >>
            /\ \A i \in 1..Len(messages) : messages[i].pass # r
            /\ \A i \in 1..Len(activities) : activities[i].pass # r

C17_Witness ==
    \E r, q \in Reqs :
        /\ req[r] # None /\ req[r].path = "chat" /\ req[r].user # "none" /\ req[r].blank
        /\ status[r] = "400"
        /\ req[r].user \in touched
        /\ pc[q] = "done" /\ status[q] = "200"

DraftCalls(p) == SelectSeq(AgentsCalled(p), LAMBDA a : a # "coordinator")

\* C19: within a pass the draft calls go to the requested agents in order,
\* at most one call each and exactly one each when the batch returned its
\* drafts; a failed call is the last call of the batch.
C19_NoRetry ==
    \A p \in Passes :
        /\ Len(DraftCalls(p)) <= Len(agents[p])
        /\ DraftCalls(p) = SubSeq(agents[p], 1, Len(DraftCalls(p)))
        /\ Len(DraftCalls(p)) <= Len(drafts[p]) + 1
        /\ returned[p].kind = "drafts" => DraftCalls(p) = agents[p]
        /\ Len(AgentsCalled(p)) - Len(DraftCalls(p)) <= 1

C19_Witness ==
    \E p \in Passes :
        /\ agents[p] = TEAM
        /\ returned[p].kind = "raise" /\ returned[p].text = "Request timed out."
        /\ DraftCalls(p) = <<"yug", "sean">>
        /\ Len(drafts[p]) = 1
        /\ tpc[p] = "end"

\* C20: the message log only grows: whatever operation runs, every committed
\* message stays at its place with its sender, role and content unchanged.
C20_AppendOnly ==
    [][/\ Len(messages') >= Len(messages)
       /\ \A i \in 1..Len(messages) : messages'[i] = messages[i]]_vars

C20_Witness ==
    /\ Len(messages) >= 2
    /\ \E r \in Reqs : req[r] # None /\ req[r].path = "summary" /\ status[r] = "200"
    /\ \E r \in Reqs : req[r] # None /\ req[r].path = "recording"
           /\ status[r] = "transcript" /\ req[r].user \in Users
    /\ messages[Len(messages)].pass # messages[1].pass

\* a lookup in the client pool failed in pass p
LookupFailed(p) ==
    \/ returned[p].kind = "raise" /\ returned[p].text = "KeyError"
    \/ synthesis[p].kind = "raise" /\ synthesis[p].text = "KeyError"

\* C21: the client pool has a client for each of the four roster members and
\* for the coordinator, so no pass ends with a failed client lookup, in
\* drafting or in synthesis.
C21_PoolResolvesAll == \A p \in Passes : ~LookupFailed(p)

\* the calls of pass p to the coordinator's client
CoordinatorCalls(p) == SelectSeq(calls[p], LAMBDA c : c.agent = "coordinator")

\* C22: a pass that ran the synthesizer issued exactly one call, to the
\* coordinator's client, whose messages are the instruction, the context and
\* the asker's prompt followed by every draft once in the order of the draft
\* set.
C22_OneCoordinatorCall ==
    \A p \in Passes :
        synthesis[p] # None =>
            /\ Len(CoordinatorCalls(p)) = 1
            /\ CoordinatorCalls(p)[1].msgs = SynthMsgs(drafts[p])

\* models.Message.sender_id: the tags of the sender identifier
SenderTags == {"user:", "agent:", "voice:", "sms:"}

\* models.Message.role
Roles == {"user", "assistant", "system"}

ActsOf(r) == SelectSeq(activities, LAMBDA a : a.pass = r)

\* C24: when a POST /chat pass has returned its reply (status 200), the
\* assistant message and the activity entry of the pass are committed to the
\* store and nothing of the pass is left uncommitted in its session.
C24_PersistedBeforeReturn ==
    \A r \in Reqs :
        (req[r] # None /\ req[r].path = "chat" /\ status[r] = "200") =>
            /\ Len(MsgsOf(r, "assistant")) = 1
            /\ Len(ActsOf(r)) = 1
            /\ ActsOf(r)[1].summary = ChatActivity(req[r].mode, req[r].content)
            /\ session[r] = << >>

C24_Witness ==
    \E r, q \in Reqs :
        /\ req[r] # None /\ req[r].path = "chat" /\ status[r] = "200"
        /\ req[r].mode = "research" /\ outcome[r].kind = "exhausted"
        /\ Len(MsgsOf(r, "assistant")) = 1
        /\ pc[q] = "calling" /\ MsgsOf(q, "assistant") = << >>

\* C25: a step that builds a prompt leaves the committed messages, the
\* activity log and the users' last-seen marks as they were.
C25_BuildNoSideEffects ==
    [][Len(built') > Len(built) =>
          /\ messages' = messages
          /\ activities' = activities
          /\ touched' = touched]_vars

C25_Witness ==
    /\ Len(built) = 1
    /\ Len(messages) = 2
    /\ Len(activities) = 1
    /\ Len(built[1].text.history) = 2
    /\ touched = {}

\* the accounts of the passes that carried a valid token
Authenticated == {req[r].user : r \in {q \in Reqs : req[q] # None}} \ {"none"}

\* C26: a POST /chat pass without a valid token ends with status 401 and
\* leaves no message, no activity entry and no pending row, issues no
\* external call, and the only accounts marked as seen are those of passes
\* that carried a valid token.
C26_UnauthenticatedWritesNothing ==
    /\ touched = Authenticated
    /\ \A r \in Reqs :
          (req[r] # None /\ req[r].path = "chat" /\ req[r].user = "none") =>
              /\ pc[r] = "done"
              /\ status[r] = "401"
              /\ outcome[r] = None
              /\ session[r] = << >>
              /\ \A i \in 1..Len(messages) : messages[i].pass # r
              /\ \A i \in 1..Len(activities) : activities[i].pass # r

C26_Witness ==
    \E r, q \in Reqs :
        /\ req[r] # None /\ req[r].path = "chat" /\ req[r].user = "none"
        /\ status[r] = "401"
        /\ status[q] = "200"
        /\ touched = {req[q].user}
        /\ Len(messages) = 2

\* the places of the rows of user u in a store
OwnPlaces(store, u) == {i \in 1..Len(store) : store[i].user_id = u}

\* rows are the rows of u in the store, each once, in the order of the store
ExactlyOwn(rows, store, u) ==
    /\ Len(rows) = Cardinality(OwnPlaces(store, u))
    /\ \E f \in [1..Len(rows) -> 1..Len(store)] :
          /\ \A k \in 1..Len(rows) :
                /\ f[k] \in OwnPlaces(store, u)
                /\ rows[k] = MessageOut(store[f[k]])
          /\ \A k, l \in 1..Len(rows) : k < l => f[k] < f[l]

\* two stores that differ only in rows of users other than u
SameOwn(a, b, u) ==
    SelectSeq(a, LAMBDA m : m.user_id = u) = SelectSeq(b, LAMBDA m : m.user_id = u)

\* C27: what GET /messages returns to a user is the user's own messages, each
\* once, in the order of creation, and it is the same from two stores that
\* differ only in messages of other users.
C27_OwnMessagesOnly ==
    \A k \in 1..Len(responses) :
        LET e == responses[k]
        IN  /\ ExactlyOwn(e.rows, messages, e.user)
            /\ ExactlyOwn(e.rows2, messages2, e.user)
            /\ SameOwn(messages, messages2, e.user) => e.rows = e.rows2

C27_Witness ==
    /\ responses # << >>
    /\ Len(messages) = 3 /\ Len(messages2) = 2
    /\ messages[2].user_id # responses[1].user
    /\ SameOwn(messages, messages2, responses[1].user)
    /\ Len(responses[1].rows) = 2
    /\ responses[1].rows = responses[1].rows2

\* C28: a run of _do_agi_research issues at most 45 status polls, a response
\* other than 200 included, ends with a text whatever its HTTP calls did, and
\* every run that started comes to its end.
C28_ResearchTerminatesWithText ==
    /\ [](/\ agi.polls <= PollLimit
          /\ agi.pc = "done" => agi.result.kind = "text")
    /\ (agi.pc # "idle") ~> (agi.pc = "done")

C28_Witness ==
    /\ agi.pc = "done"
    /\ agi.polls = PollLimit
    /\ agi.result.text = <<"AGI research error: ", "Request timed out.">>

\* C29: a run that created an AGI session and has returned has issued the
\* DELETE request for the session.
C29_SessionDeletedOnExit ==
    (agi.pc = "done" /\ agi.session) => agi.deleted

\* C30: the run after the hangup of one call leaves at most one message in
\* the log: the transcript, or the notice that no recording was available,
\* or the notice that the transcription failed.
C30_OneMessagePerCall ==
    \A r \in Reqs :
        (req[r] # None /\ req[r].path = "recording") =>
            Len(SelectSeq(messages, LAMBDA m : m.pass = r)) <= 1

\* the call id the connection knows: the URL parameter, else the one of the
\* stream metadata it received
KnownCallId == IF ws.url # "" THEN ws.url ELSE ws.meta

\* C31: when a /voice/ws connection has ended, after a hangup or after an
\* exception of the receive or of the pipeline, the post-hangup transcription
\* has been started exactly once, for the known call id, if one is known (the
\* URL parameter, else the stream metadata), and not at all if none is known;
\* it is never started before the connection ends.
C31_TranscriptionStartedOnce ==
    /\ ws.pc # "closed" => ws.threads = << >>
    /\ ws.pc = "closed" =>
          ws.threads = IF KnownCallId # "" THEN <<<<KnownCallId, ws.caller>>>> ELSE << >>

C31_Witness ==
    /\ ws.pc = "closed"
    /\ ws.error
    /\ ws.url = ""
    /\ ws.meta = "m1"
    /\ ws.threads = <<<<"m1", ws.caller>>>>

\* C32: when no lookup of the ten has yielded a recording URL, exactly one
\* recording-unavailable notice is persisted and no download or transcription
\* is attempted.
C32_OneUnavailableNotice ==
    (rec.pc = "done" /\ rec.found = 0 /\ rec.lookups = LookupLimit) =>
        /\ Len(messages) = 1
        /\ rec.downloads = 0
        /\ rec.transcriptions = 0

\* the parts of C32 about the lookups: at most ten, none after the first that
\* yields a URL, and no download without a URL
LookupsBounded ==
    /\ rec.lookups <= LookupLimit
    /\ rec.found # 0 => rec.lookups = rec.found
    /\ rec.found = 0 => rec.downloads = 0 /\ rec.transcriptions = 0
    /\ rec.notices = <<"unavailable">> => rec.found = 0 /\ rec.lookups = LookupLimit
\* the assistant rows pass r has committed
RepliesOf(r) ==
    SelectSeq(messages, LAMBDA row : row.pass = r /\ row.role = "assistant")

Tags == {"[AGI Research] ", "[Composio Action] "}

\* C33: a POST /chat pass invokes at most one handler, and a pass that has
\* replied has invoked exactly one, chosen by the mode: "research" the AGI
\* research, its reply prefixed "[AGI Research] "; "action" the Composio
\* action, its reply prefixed "[Composio Action] "; every other mode value
\* the normal chat, its reply without a prefix.
C33_OneHandlerByMode ==
    \A r \in Reqs :
        /\ Len(handlers[r]) <= 1
        /\ (pc[r] = "done" /\ status[r] = "200") =>
              LET m == req[r].mode
                  reply == RepliesOf(r)
              IN  /\ Len(handlers[r]) = 1
                  /\ Len(reply) = 1
                  /\ reply[1].content # << >>
                  /\ m = "research" =>
                        /\ handlers[r][1] = "_do_agi_research"
                        /\ Head(reply[1].content) = "[AGI Research] "
                  /\ m = "action" =>
                        /\ handlers[r][1] = "_do_composio_action"
                        /\ Head(reply[1].content) = "[Composio Action] "
                  /\ m \notin {"research", "action"} =>
                        /\ handlers[r][1] = "_do_chat"
                        /\ Head(reply[1].content) \notin Tags

C33_Witness ==
    \E r, q \in Reqs :
        /\ pc[r] = "done" /\ status[r] = "200" /\ req[r].mode = "team"
        /\ handlers[r] = <<"_do_chat">>
        /\ pc[q] = "done" /\ status[q] = "200" /\ req[q].mode = "research"
        /\ Head(RepliesOf(q)[1].content) = "[AGI Research] "
\* the rows generate_summary persists
SummaryMessages ==
    SelectSeq(messages, LAMBDA row : row.content # << >> /\
                  Head(row.content) = "[Summary Report] Created summary with ")

SummaryActivities ==
    SelectSeq(activities, LAMBDA row : row.summary # << >> /\
                  Head(row.summary) = "[Summary] Generated & emailed to ")

StepNames == <<"summarize", "google_doc", "email">>

\* C34 as stated: every attempted step, the summarize step among them, has
\* added one entry to the step list.
C34_OneEntryPerAttemptedStep == Len(summ.steps) = Len(summ.attempted)

\* C34: the steps are attempted in the order summarize, Google Doc, e-mail;
\* a failed summarize ends the request with 502, with no entry, no message
\* and no activity; once the Google Doc step has been attempted, whatever its
\* result, the request ends only after the e-mail step has been attempted;
\* the Google Doc and e-mail steps each add exactly one entry to the step
\* list, in that order, and the summarize step adds none.
C34_StepsIsolated ==
    /\ summ.attempted = SubSeq(StepNames, 1, Len(summ.attempted))
    /\ summ.status = "502" =>
          /\ summ.attempted = <<"summarize">>
          /\ summ.steps = << >>
          /\ SummaryMessages = << >>
          /\ SummaryActivities = << >>
    /\ (summ.pc = "done" /\ Len(summ.attempted) >= 2) =>
          /\ summ.attempted = StepNames
          /\ summ.status = "200"
    /\ Len(summ.steps) = (IF summ.attempted = << >> THEN 0 ELSE Len(summ.attempted) - 1)
    /\ \A i \in 1..Len(summ.steps) : summ.steps[i].step = summ.attempted[i + 1]

C34_Witness ==
    /\ summ.pc = "done"
    /\ summ.status = "200"
    /\ summ.steps = <<[step |-> "google_doc", status |-> "error"],
                      [step |-> "email", status |-> "success"]>>
    /\ Len(SummaryMessages) = 1

\* C35: the report message and the activity say the summary was e-mailed to
\* the recipient only when the e-mail step succeeded.
C35_EmailedOnlyOnSuccess ==
    (SummaryMessages # << >> \/ SummaryActivities # << >>) =>
        \E i \in 1..Len(summ.steps) :
            summ.steps[i] = [step |-> "email", status |-> "success"]
\* C36: set_entry_point accepts ask_one, ask_team and synthesize and nothing
\* else; a call with another name raises and leaves the entry point as it
\* was, a call with one of the three makes it the entry point; the entry
\* point is ask_team before any call; and what compile returns has exactly
\* one node, the entry point the object held, with the edges START -> node
\* and node -> END.
C36_EntryPointValidated ==
    /\ graph.entry \in {"ask_one", "ask_team", "synthesize"}
    /\ graph.history = << >> => graph.entry = "ask_team"
    /\ \A i \in 1..Len(graph.history) :
          LET h == graph.history[i]
          IN  /\ h.before = (IF i = 1 THEN "ask_team" ELSE graph.history[i - 1].after)
              /\ IF h.name \in {"ask_one", "ask_team", "synthesize"}
                 THEN ~h.raised /\ h.after = h.name
                 ELSE h.raised /\ h.after = h.before
    /\ graph.history # << >> => graph.entry = graph.history[Len(graph.history)].after
    /\ graph.compiled # None =>
          /\ graph.compiled.entry \in {"ask_one", "ask_team", "synthesize"}
          /\ graph.compiled.g.nodes = {graph.compiled.entry}
          /\ graph.compiled.g.edges = {<<"START", graph.compiled.entry>>,
                                       <<graph.compiled.entry, "END">>}

C36_Witness ==
    /\ Len(graph.history) = 2
    /\ graph.history[1].name = "synthesize"
    /\ graph.history[2].name = "summarize"
    /\ graph.history[2].raised
    /\ graph.compiled # None
    /\ graph.compiled.g.nodes = {"synthesize"}
\* C37: for the same asker, prompt, context and target, with the completions
\* doing the same, spoon_os and spoon_official issue the same sequence of
\* model calls and return the same drafts or synthesis, also when no target
\* is given.
C37_ImplementationsAgree ==
    equiv.pc = "both" => equiv.os = equiv.official

\* the two agree on every input that names a target or needs none
AgreeWithTarget ==
    (equiv.pc = "both" /\ ~(equiv.input.fn = "ask_one" /\ equiv.input.target = "none")) =>
        equiv.os = equiv.official
\* the users and credentials some finished request has added
AddedRows ==
    LET RECURSIVE Sum(_)
        Sum(g) == IF g = 0 THEN <<0, 0>>
                  ELSE <<Sum(g - 1)[1] + accounts.reg[g].added[1],
                         Sum(g - 1)[2] + accounts.reg[g].added[2]>>
    IN  Sum(MaxRegs)

\* C38: a register request whose email is registered is rejected and adds
\* nothing; a successful one has added one user and one credential, its own;
\* nothing else changes the tables; and in every state each user has exactly
\* one credential, each credential a user, and no two users share an email.
C38_AccountsConsistent ==
    LET users == accounts.users
        creds == accounts.credentials
    IN  /\ \A i \in 1..Len(users) :
              Cardinality({j \in 1..Len(creds) : creds[j].user_id = users[i].id}) = 1
        /\ \A j \in 1..Len(creds) : \E i \in 1..Len(users) : users[i].id = creds[j].user_id
        /\ \A i, k \in 1..Len(users) :
              (users[i].email = users[k].email \/ users[i].id = users[k].id) => i = k
        /\ Len(users) = 2 + AddedRows[1]
        /\ Len(creds) = 2 + AddedRows[2]
        /\ \A g \in Regs :
              LET q == accounts.reg[g]
              IN  /\ q.found => q.pc = "done" /\ q.status = "400"
                  /\ q.status \in {"400", "500"} =>
                        /\ q.added = <<0, 0>>
                        /\ \E i \in 1..Len(users) :
                              users[i].email = q.email /\ users[i].id # ToString(g)
                  /\ q.status = "200" =>
                        /\ q.added = <<1, 1>>
                        /\ \E i \in 1..Len(users) :
                              users[i].email = q.email /\ users[i].id = ToString(g)

C38_Witness ==
    \E g, h \in Regs :
        /\ accounts.reg[g].status = "200"
        /\ accounts.reg[h].status = "500"
        /\ accounts.reg[g].email = accounts.reg[h].email
        /\ Len(accounts.users) = 3
\* C39: whatever the user's name and the configured clients, the lookup
\* returns: the client registered under the lower-cased, trimmed name if
\* there is one; otherwise the "sean" client if there is one; otherwise the
\* first configured client; and no client only when none is configured.
C39_ClientLookupTotal ==
    lookup.pc = "done" =>
        LET has(k) == \E i \in 1..Len(lookup.clients) : lookup.clients[i] = k
        IN  /\ has(lookup.key) => lookup.result = [kind |-> "client", key |-> lookup.key]
            /\ (~has(lookup.key) /\ has(<<"sean">>)) =>
                  lookup.result = [kind |-> "client", key |-> <<"sean">>]
            /\ (~has(lookup.key) /\ ~has(<<"sean">>) /\ lookup.clients # << >>) =>
                  lookup.result = [kind |-> "client", key |-> lookup.clients[1]]
            /\ lookup.result = None <=> lookup.clients = << >>

C39_Witness ==
    /\ lookup.pc = "done"
    /\ lookup.name = [text |-> <<" ", "yug">>]
    /\ lookup.clients = <<<<"sean">>, <<"yug">>>>
    /\ lookup.result = [kind |-> "client", key |-> <<"yug">>]
====
